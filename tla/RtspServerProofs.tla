-------------------------- MODULE RtspServerProofs --------------------------
(***************************************************************************)
(* Proofs about RtspServer for every value of its constants.               *)
(***************************************************************************)
EXTENDS RtspServer, TLAPS

(* A closed track is a track.                                              *)
LEMMA ClosedTrackType == ClosedTrack \in TrackRecord
BY ConstantsAssumption DEF ClosedTrack, TrackRecord

(* The record a new or reset slot holds is a client.                       *)
LEMMA NewClientType == NewClient \in Client
BY ConstantsAssumption DEF NewClient, Client, AllClosed, ClosedTrack, TrackRecord, Stream,
   Track, Item, NoFd

(* Initially every variable has its type (rtsp_server_init).               *)
LEMMA InitType == Init => TypeOK
<1>1. <<>> \in Seq(Message)
  OBVIOUS
<1>2. 0 \in Slot
  BY ConstantsAssumption DEF Slot
<1> QED
  BY <1>1, <1>2, NewClientType DEF Init, TypeOK, Silence

(* What every handler that answers and moves on does: the slot becomes a   *)
(* client, and its peer is sent messages.                                  *)
LEMMA HandledType ==
    ASSUME TypeOK, Pending, NEW c \in Client, c.rxbuf = Me.rxbuf,
           NEW msgs \in Seq(Message), Handled(c, msgs)
    PROVE  /\ client' \in [Slot -> Client]
           /\ out' \in [Slot -> Seq(Message)]
           /\ cached' = cached /\ clock' = clock /\ now' = now /\ pc' = pc /\ cur' = cur
<1>1. c.rxbuf \in Seq(Item) /\ c.rxbuf # <<>>
  BY DEF Client, Pending
<1>2. Tail(c.rxbuf) \in Seq(Item)
  BY <1>1
<1>3. [c EXCEPT !.rxbuf = Rest(@)] \in Client
  BY <1>2 DEF Rest, Client
<1>4. <<>> \in Seq(Message)
  OBVIOUS
<1> QED
  BY <1>3, <1>4 DEF Handled, BecomeMe, SendMe, TypeOK, loop

(* The request at the head of the buffer is a request.                     *)
LEMMA ReqType ==
    ASSUME TypeOK, Pending
    PROVE  Me \in Client /\ Req \in Request /\ Head(Me.rxbuf).cseq \in Nat
<1>1. Me \in Client
  BY DEF TypeOK, Me
<1>2. Me.rxbuf \in Seq(Item) /\ Me.rxbuf # <<>>
  BY <1>1 DEF Client, Pending
<1>3. Head(Me.rxbuf) \in Item
  BY <1>2
<1> QED
  BY <1>1, <1>3 DEF Req, Item

LEMMA AnswerType ==
    ASSUME TypeOK, Pending, NEW status \in {200, 400, 401, 404, 405, 454, 500},
           NEW id \in SessionIds \cup {NoSession}
    PROVE  /\ Answer(status, id) \in Message
           /\ <<Answer(status, id)>> \in Seq(Message)
<1>1. Answer(status, id) \in Reply
  BY ReqType DEF Answer, Reply
<1> QED
  BY <1>1 DEF Message

LEMMA ReplyOnlyType ==
    ASSUME TypeOK, Pending, NEW status \in {200, 400, 401, 404, 405, 454, 500},
           ReplyOnly(status)
    PROVE  TypeOK'
<1>1. Me \in Client /\ <<Answer(status, NoSession)>> \in Seq(Message)
  BY ReqType, AnswerType
<1>2. Handled(Me, <<Answer(status, NoSession)>>) /\ idr' = idr /\ open' = open
  BY DEF ReplyOnly
<1>3. /\ client' \in [Slot -> Client]
      /\ out' \in [Slot -> Seq(Message)]
      /\ cached' = cached /\ clock' = clock /\ now' = now /\ pc' = pc /\ cur' = cur
  BY <1>1, <1>2, HandledType
<1> QED
  BY <1>2, <1>3 DEF TypeOK

LEMMA SilenceType == Silence \in [Slot -> Seq(Message)]
BY DEF Silence

LEMMA NextSlotType ==
    ASSUME cur \in Slot, NextSlot
    PROVE  pc' \in {"recv", "frame"} /\ cur' \in Slot
BY ConstantsAssumption DEF NextSlot, Slot

(* A numbered batch of requests extends the receive buffer.                *)
LEMMA NumberedType ==
    ASSUME NEW n \in Nat, NEW batch \in [1 .. n -> Requests], Me \in Client
    PROVE  Me.rxbuf \o Numbered(batch, n) \in Seq(Item)
<1>1. Numbered(batch, n) \in Seq(Item)
  BY ConstantsAssumption DEF Numbered, Item, Client
<1> QED
  BY <1>1 DEF Client

(* The sequence counter of a track stays within 16 bits.                   *)
LEMMA BumpSeqType ==
    ASSUME NEW c \in Client, NEW t \in Track, NEW n \in Nat
    PROVE  BumpSeq(c, t, n) \in Client
<1>1. c.tracks[t] \in TrackRecord
  BY DEF Client
<1>2. (c.tracks[t].seq + n) % SeqModulus \in 0 .. SeqModulus - 1
  BY <1>1, ConstantsAssumption DEF TrackRecord
<1>3. [c.tracks[t] EXCEPT !.seq = (c.tracks[t].seq + n) % SeqModulus] \in TrackRecord
  BY <1>1, <1>2 DEF TrackRecord
<1> QED
  BY <1>3 DEF BumpSeq, Client

-----------------------------------------------------------------------------
(* Each group of actions keeps the types. *)

LEMMA AcceptType == TypeOK /\ Accept => TypeOK'
<1> SUFFICES ASSUME TypeOK, Accept PROVE TypeOK'
  OBVIOUS
<1>0. 0 \in Slot
  BY ConstantsAssumption DEF Slot
<1>1. StartPass
  BY Zenon DEF Accept, NoPeer, RefusePeer, AcceptPeer
<1>2. /\ pc' = "recv" /\ cur' \in Slot /\ now' \in Nat /\ clock' \in Nat
      /\ cached' = cached /\ idr' = idr /\ out' \in [Slot -> Seq(Message)]
  BY <1>0, <1>1, SilenceType DEF StartPass, server, TypeOK
<1>3. client' \in [Slot -> Client] /\ open' \subseteq Fds
  <2>1. CASE NoPeer \/ RefusePeer
    BY <2>1 DEF NoPeer, RefusePeer, TypeOK
  <2>2. CASE \E i \in Slot, fd \in Fds : AcceptPeer(i, fd)
    <3>1. PICK i \in Slot, fd \in Fds : AcceptPeer(i, fd)
      BY <2>2
    <3>2. PICK local \in BOOLEAN :
             client' = [client EXCEPT
                ![i] = [ClientReset(@) EXCEPT !.tcp_fd = fd, !.loopback = local]]
      BY <3>1 DEF AcceptPeer
    <3>3. [NewClient EXCEPT !.tcp_fd = fd, !.loopback = local] \in Client
      BY NewClientType DEF Client
    <3>4. open' \subseteq Fds
      BY <3>1 DEF AcceptPeer, TypeOK
    <3> QED
      BY <3>2, <3>3, <3>4 DEF ClientReset, TypeOK
  <2> QED
    BY <2>1, <2>2 DEF Accept
<1> QED
  BY <1>2, <1>3 DEF TypeOK

LEMMA ReceiveType == TypeOK /\ (SkipFreeSlot \/ Hangup \/ Receive) => TypeOK'
<1>1. ASSUME TypeOK, SkipFreeSlot PROVE TypeOK'
  BY <1>1, NextSlotType, SilenceType DEF SkipFreeSlot, TypeOK, server
<1>2. ASSUME TypeOK, Hangup PROVE TypeOK'
  <2>1. pc' \in {"recv", "frame"} /\ cur' \in Slot
    BY <1>2, NextSlotType DEF Hangup, TypeOK
  <2>2. client' \in [Slot -> Client]
    BY <1>2, NewClientType DEF Hangup, BecomeMe, ClientReset, TypeOK
  <2>3. open' \subseteq Fds
    BY <1>2 DEF Hangup, TypeOK
  <2> QED
    BY <1>2, <2>1, <2>2, <2>3, SilenceType DEF Hangup, TypeOK, server
<1>3. ASSUME TypeOK, Receive PROVE TypeOK'
  <2>1. Me \in Client
    BY <1>3 DEF Me, TypeOK
  <2>2. PICK n \in 0 .. MaxBatch : \E batch \in [1 .. n -> Requests] :
           BecomeMe([Me EXCEPT !.rxbuf = @ \o Numbered(batch, n), !.cseq = @ + n])
    BY <1>3 DEF Receive
  <2>3. PICK batch \in [1 .. n -> Requests] :
           BecomeMe([Me EXCEPT !.rxbuf = @ \o Numbered(batch, n), !.cseq = @ + n])
    BY <2>2
  <2>4. n \in Nat
    OBVIOUS
  <2>5. Me.rxbuf \o Numbered(batch, n) \in Seq(Item) /\ Me.cseq + n \in Nat
    BY <2>1, <2>4, NumberedType DEF Client
  <2>6. [Me EXCEPT !.rxbuf = @ \o Numbered(batch, n), !.cseq = @ + n] \in Client
    BY <2>1, <2>5 DEF Client
  <2>7. client' \in [Slot -> Client]
    BY <1>3, <2>3, <2>6 DEF BecomeMe, TypeOK
  <2> QED
    BY <1>3, <2>7, SilenceType DEF Receive, TypeOK, server
<1> QED
  BY <1>1, <1>2, <1>3

LEMMA SetupTrackType ==
    ASSUME TypeOK, Pending, NEW new \in TrackRecord, Req.stream \in Stream,
           NEW id \in SessionIds \cup {NoSession}
    PROVE  /\ [Me EXCEPT !.tracks[Req.track] = new] \in Client
           /\ [Me EXCEPT !.tracks[Req.track] = new, !.stream_id = Req.stream,
                         !.session = id] \in Client
<1>1. Me \in Client /\ Req.track \in Track
  BY ReqType DEF Request
<1>2. [Me.tracks EXCEPT ![Req.track] = new] \in [Track -> TrackRecord]
  BY <1>1 DEF Client
<1> QED
  BY <1>1, <1>2 DEF Client

LEMMA SetupType == TypeOK /\ Setup => TypeOK'
<1> SUFFICES ASSUME TypeOK, Setup PROVE TypeOK'
  OBVIOUS
<1> DEFINE R == Req.stream \in Stream
<1>1. Pending /\ R
  BY ConstantsAssumption DEF Setup, SetupNoTransport, SetupTcp, SetupNoPorts, SetupUdp,
     SetupLastPort, SetupBy, NoStream, Asks
<1>2. Me \in Client /\ Req \in Request /\ Req.track \in Track
  BY <1>1, ReqType DEF Request
<1>3. CASE SetupNoTransport
  BY <1>1, <1>3, ReplyOnlyType DEF SetupNoTransport
<1>4. ASSUME NEW new \in TrackRecord, SetupDone(new) \/ SetupFailed(new),
             idr' = idr, open' \subseteq Fds
      PROVE  TypeOK'
  <2>1. CASE SetupDone(new)
    <3>1. PICK id \in IdFor(Me) :
             Handled([Me EXCEPT !.tracks[Req.track] = new, !.stream_id = Req.stream,
                                !.session = id], <<Answer(200, id)>>)
      BY <2>1 DEF SetupDone
    <3>2. id \in SessionIds \cup {NoSession}
      BY <1>2 DEF IdFor, Client
    <3> DEFINE c == [Me EXCEPT !.tracks[Req.track] = new, !.stream_id = Req.stream,
                               !.session = id]
    <3>3. c \in Client
      BY <1>1, <3>2, SetupTrackType
    <3>4. c.rxbuf = Me.rxbuf
      BY <1>2 DEF Client
    <3>5. <<Answer(200, id)>> \in Seq(Message)
      BY <1>1, <3>2, AnswerType
    <3>6. Handled(c, <<Answer(200, id)>>)
      BY <3>1
    <3> HIDE DEF c
    <3>7. /\ client' \in [Slot -> Client] /\ out' \in [Slot -> Seq(Message)]
          /\ cached' = cached /\ clock' = clock /\ now' = now /\ pc' = pc /\ cur' = cur
      BY <1>1, <3>3, <3>4, <3>5, <3>6, HandledType
    <3> QED
      BY <1>4, <3>7 DEF TypeOK
  <2>2. CASE SetupFailed(new)
    <3> DEFINE c == [Me EXCEPT !.tracks[Req.track] = new]
    <3>1. c \in Client
      BY <1>1, SetupTrackType DEF NoSession
    <3>2. c.rxbuf = Me.rxbuf
      BY <1>2 DEF Client
    <3>3. <<Answer(500, NoSession)>> \in Seq(Message)
      BY <1>1, AnswerType
    <3>4. Handled(c, <<Answer(500, NoSession)>>)
      BY <2>2 DEF SetupFailed
    <3> HIDE DEF c
    <3>5. /\ client' \in [Slot -> Client] /\ out' \in [Slot -> Seq(Message)]
          /\ cached' = cached /\ clock' = clock /\ now' = now /\ pc' = pc /\ cur' = cur
      BY <1>1, <3>1, <3>2, <3>3, <3>4, HandledType
    <3> QED
      BY <1>4, <3>5 DEF TypeOK
  <2> QED
    BY <1>4, <2>1, <2>2
<1>5. [ClosedTrack EXCEPT !.active = TRUE, !.interleaved = TRUE] \in TrackRecord
  BY ClosedTrackType DEF TrackRecord
<1>6. CASE SetupTcp \/ SetupNoPorts
  <2>1. idr' = idr /\ open' \subseteq Fds
    BY <1>6 DEF SetupTcp, SetupNoPorts, CloseTrack, AfterTrackClose, TypeOK
  <2> QED
    BY <1>4, <1>5, <1>6, <2>1, ClosedTrackType DEF SetupTcp, SetupNoPorts
<1>7. ASSUME NEW rtp \in Fds, NEW rtcp \in Fds, SetupUdp(rtp, rtcp) \/ SetupLastPort(rtp, rtcp)
      PROVE  TypeOK'
  <2>1. idr' = idr /\ open' \subseteq Fds
    BY <1>7 DEF SetupUdp, SetupLastPort, UdpPair, AfterTrackClose, TypeOK
  <2>2. /\ [ClosedTrack EXCEPT !.active = TRUE, !.rtp_fd = rtp, !.rtcp_fd = rtcp] \in TrackRecord
        /\ [ClosedTrack EXCEPT !.rtp_fd = rtp, !.rtcp_fd = rtcp] \in TrackRecord
    BY ClosedTrackType DEF TrackRecord
  <2> QED
    BY <1>4, <1>7, <2>1, <2>2 DEF SetupUdp, SetupLastPort
<1> QED
  BY <1>3, <1>6, <1>7 DEF Setup

LEMMA PlayType == TypeOK /\ Play => TypeOK'
<1> SUFFICES ASSUME TypeOK, Play PROVE TypeOK'
  OBVIOUS
<1>1. Pending /\ Me \in Client
  BY ReqType DEF Play, NamesSession, Asks
<1>2. Started(Me) \in Client /\ Started(Me).rxbuf = Me.rxbuf
  BY <1>1 DEF Started, Client, TypeOK
<1>3. <<Answer(200, NoSession)>> \in Seq(Message)
  BY <1>1, AnswerType
<1>4. idr' \subseteq Stream /\ open' = open
  BY <1>1 DEF Play, IdrFor, TypeOK, Client
<1> QED
  BY <1>1, <1>2, <1>3, <1>4, HandledType DEF Play, TypeOK

LEMMA TeardownType == TypeOK /\ Teardown => TypeOK'
<1> SUFFICES ASSUME TypeOK, Teardown PROVE TypeOK'
  OBVIOUS
<1>1. Pending /\ Me \in Client
  BY ReqType DEF Teardown, NamesSession, Asks
<1>2. SessionReset(Me) \in Client /\ SessionReset(Me).rxbuf = Me.rxbuf
  BY <1>1, NewClientType DEF SessionReset, NewClient, Client
<1>3. Byes(Me) \in Seq(Message)
  <2>1. \A t \in Track : [kind |-> "bye", track |-> t] \in Message
    BY DEF Message, Bye
  <2>2. ASSUME NEW t \in Track PROVE <<[kind |-> "bye", track |-> t]>> \in Seq(Message)
    BY <2>1
  <2> QED
    BY <2>2 DEF Byes, Track
<1>4. Append(Byes(Me), Answer(200, NoSession)) \in Seq(Message)
  BY <1>1, <1>3, AnswerType
<1>5. idr' = idr /\ open' \subseteq Fds
  BY DEF Teardown, TypeOK
<1> QED
  BY <1>1, <1>2, <1>4, <1>5, HandledType DEF Teardown, TypeOK

LEMMA HandleType == TypeOK /\ Handle => TypeOK'
<1> SUFFICES ASSUME TypeOK, Handle PROVE TypeOK'
  OBVIOUS
<1>1. CASE Setup \/ Play \/ Teardown
  BY <1>1, SetupType, PlayType, TeardownType
<1>2. CASE Unauthorized \/ Options \/ GetParameter \/ UnknownMethod
           \/ StreamNotFound \/ Describe
  BY <1>2, ReplyOnlyType DEF Unauthorized, Options, GetParameter, UnknownMethod,
     StreamNotFound, NoStream, Describe, Asks
<1>3. CASE BadSession
  BY <1>3, ReplyOnlyType DEF BadSession, Asks, SessionStatus
<1> QED
  BY <1>1, <1>2, <1>3 DEF Handle

LEMMA FinishType == TypeOK /\ FinishClient => TypeOK'
<1> SUFFICES ASSUME TypeOK, FinishClient PROVE TypeOK'
  OBVIOUS
<1> DEFINE c == [Me EXCEPT !.rxbuf = AfterOverflow(@)]
<1>1. Me \in Client
  BY DEF Me, TypeOK
<1>2. c \in Client
  <2>1. AfterOverflow(Me.rxbuf) \in Seq(Item)
    BY <1>1 DEF AfterOverflow, Client
  <2> QED
    BY <1>1, <2>1 DEF Client
<1>3. pc' \in {"recv", "frame"} /\ cur' \in Slot
  BY NextSlotType DEF FinishClient, TypeOK
<1>4. client' \in [Slot -> Client] /\ out' \in [Slot -> Seq(Message)]
  <2>1. CASE MetadataDue(Me)
    <3> DEFINE p == [kind |-> "rtp", track |-> "metadata", stream |-> Me.stream_id,
                     nal |-> "xml", seq |-> Me.tracks["metadata"].seq, marker |-> TRUE]
               d == BumpSeq(c, "metadata", 1)
    <3>1. Me.tracks["metadata"] \in TrackRecord
      BY <1>1 DEF Client, Track
    <3>2. p \in Packet
      BY <1>1, <3>1 DEF Packet, Client, Track, TrackRecord
    <3>3. <<p>> \in Seq(Message)
      BY <3>2 DEF Message
    <3>4. d \in Client
      BY <1>2, BumpSeqType DEF Track
    <3>5. d.next_metadata + MetadataInterval \in Nat
      BY <3>4, ConstantsAssumption DEF Client
    <3> HIDE DEF d, p
    <3>6. [d EXCEPT !.next_metadata = @ + MetadataInterval] \in Client
      BY <3>4, <3>5 DEF Client
    <3>7. SendMe(<<p>>) /\ BecomeMe([d EXCEPT !.next_metadata = @ + MetadataInterval])
      BY <2>1 DEF FinishClient, d, p
    <3> QED
      BY <3>3, <3>6, <3>7 DEF SendMe, BecomeMe, TypeOK
  <2>2. CASE ~MetadataDue(Me)
    <3>1. out' = Silence /\ BecomeMe(c)
      BY <2>2 DEF FinishClient
    <3> HIDE DEF c
    <3> QED
      BY <1>2, <3>1, SilenceType DEF BecomeMe, TypeOK
  <2> QED
    BY <2>1, <2>2
<1> QED
  BY <1>3, <1>4 DEF FinishClient, TypeOK, server

LEMMA VideoPacketsType ==
    ASSUME NEW c \in Client, NEW nal \in Nal, nal.kind # "SEI"
    PROVE  VideoPackets(c, nal) \in Seq(Message)
<1>1. Packets(nal) \in Nat
  BY DEF Packets
<1>2. c.tracks["video"].seq \in Nat
  BY ConstantsAssumption DEF Client, Track, TrackRecord
<1>3. ASSUME NEW k \in 1 .. Packets(nal) PROVE VideoPackets(c, nal)[k] \in Message
  <2>1. (c.tracks["video"].seq + k - 1) % SeqModulus \in 0 .. SeqModulus - 1
    BY <1>2, ConstantsAssumption
  <2>2. nal.kind \in {"SPS", "PPS", "slice"} /\ nal.stream \in Stream /\ nal.last \in BOOLEAN
    BY DEF Nal
  <2>3. (nal.last /\ k = Packets(nal)) \in BOOLEAN
    BY <2>2
  <2>4. VideoPackets(c, nal)[k] \in Packet
    BY <2>1, <2>2, <2>3 DEF VideoPackets, Packet, Track
  <2> QED
    BY <2>4 DEF Message
<1> QED
  BY <1>1, <1>3 DEF VideoPackets

LEMMA PushType == ASSUME TypeOK, NEW nal \in Nals, PushNal(nal) PROVE TypeOK'
<1>1. nal \in Nal
  BY ConstantsAssumption
<1>2. cached' \in [Stream -> SUBSET {"SPS", "PPS"}] /\ idr' \subseteq Stream
  BY <1>1 DEF PushNal, TypeOK, Nal
<1>3. out' \in [Slot -> Seq(Message)]
  <2>1. ASSUME NEW i \in Slot, Receives(client[i], nal)
        PROVE  VideoPackets(client[i], nal) \in Seq(Message)
    BY <1>1, <2>1, VideoPacketsType DEF TypeOK, Receives
  <2> QED
    BY <2>1 DEF PushNal
<1>4. client' \in [Slot -> Client]
  <2>1. ASSUME NEW c \in Client
        PROVE  [BumpSeq(c, "video", Packets(nal)) EXCEPT !.waiting_for_sps = FALSE] \in Client
    <3>1. BumpSeq(c, "video", Packets(nal)) \in Client
      BY BumpSeqType DEF Packets, Track
    <3> QED
      BY <3>1 DEF Client
  <2> QED
    BY <2>1 DEF PushNal, TypeOK
<1> QED
  BY <1>2, <1>3, <1>4 DEF PushNal, TypeOK, loop

LEMMA CloseType == TypeOK /\ (EndFrame \/ Close \/ Outside) => TypeOK'
<1>1. ASSUME TypeOK, EndFrame PROVE TypeOK'
  BY <1>1, SilenceType DEF EndFrame, TypeOK, server
<1>2. ASSUME TypeOK, Close PROVE TypeOK'
  BY <1>2, SilenceType, NewClientType DEF Close, ClientReset, TypeOK, server
<1>3. ASSUME TypeOK, Tick PROVE TypeOK'
  BY <1>3, SilenceType DEF Tick, TypeOK, server
<1>4. ASSUME TypeOK, NEW s \in Stream, TakeIdr(s) PROVE TypeOK'
  BY <1>4, SilenceType DEF TakeIdr, TypeOK, loop
<1> QED
  BY <1>1, <1>2, <1>3, <1>4 DEF Outside

(***************************************************************************)
(* The types are kept by every step of the server: the request handlers,   *)
(* the poll pass, the video path and the shutdown.                         *)
(***************************************************************************)
LEMMA NextType == TypeOK /\ [Next]_vars => TypeOK'
<1> SUFFICES ASSUME TypeOK, [Next]_vars PROVE TypeOK'
  OBVIOUS
<1>1. CASE Loop
  BY <1>1, AcceptType, ReceiveType, HandleType, FinishType, CloseType DEF Loop
<1>2. CASE \E nal \in Nals : PushNal(nal)
  BY <1>2, PushType
<1>3. CASE Close \/ Outside
  BY <1>3, CloseType
<1>4. CASE UNCHANGED vars
  BY <1>4 DEF vars, server, loop, TypeOK
<1> QED
  BY <1>1, <1>2, <1>3, <1>4 DEF Next

(***************************************************************************)
(* Type correctness for any number of slots, streams enabled, requests and *)
(* NALs: in particular the RTP sequence counter stays within 16 bits.      *)
(***************************************************************************)
THEOREM TypeCorrect == Spec => []TypeOK
<1> QED
  BY InitType, NextType, PTL DEF Spec

-----------------------------------------------------------------------------
(***************************************************************************)
(* The flags of a client agree.  The invariant is not inductive as it      *)
(* stands: that a request is only handled on a slot with a connection is   *)
(* needed to see that a session never appears in a free slot.              *)
(***************************************************************************)
Serving == pc = "drain" => Me.tcp_fd # NoFd

FlagsInv == TypeOK /\ SessionFlagsAgree /\ Serving

LEMMA NewClientFlags == FlagsAgree(NewClient)
BY DEF FlagsAgree, NewClient, AllClosed, ClosedTrack, NoSession, NoFd

(* Slot cur changes to a client whose flags agree, the others stay.        *)
LEMMA FlagsStep ==
    ASSUME FlagsInv, NEW c, BecomeMe(c), FlagsAgree(c)
    PROVE  SessionFlagsAgree'
BY DEF FlagsInv, TypeOK, SessionFlagsAgree, BecomeMe

LEMMA HandledFlags ==
    ASSUME FlagsInv, Pending, NEW c \in Client, FlagsAgree(c), c.tcp_fd # NoFd,
           NEW msgs, Handled(c, msgs)
    PROVE  SessionFlagsAgree' /\ Serving'
<1> DEFINE d == [c EXCEPT !.rxbuf = Rest(@)]
<1>1. FlagsAgree(d) /\ d.tcp_fd # NoFd
  BY DEF FlagsAgree, Client
<1>2. BecomeMe(d) /\ cur' = cur
  BY DEF Handled, loop
<1> HIDE DEF d
<1>3. Me' = d
  BY <1>2 DEF BecomeMe, Me, FlagsInv, TypeOK
<1> QED
  BY <1>1, <1>2, <1>3, FlagsStep DEF Serving

LEMMA HandleFlags == FlagsInv /\ Handle => SessionFlagsAgree' /\ Serving'
<1> SUFFICES ASSUME FlagsInv, Handle PROVE SessionFlagsAgree' /\ Serving'
  OBVIOUS
<1>1. Pending
  BY DEF Handle, Unauthorized, Options, GetParameter, UnknownMethod, StreamNotFound,
     NoStream, Describe, Setup, SetupNoTransport, SetupTcp, SetupNoPorts, SetupUdp,
     SetupLastPort, SetupBy, BadSession, Play, Teardown, NamesSession, Asks
<1>2. Me \in Client /\ Req \in Request /\ FlagsAgree(Me) /\ Me.tcp_fd # NoFd
  BY <1>1, ReqType DEF FlagsInv, TypeOK, SessionFlagsAgree, Me, Serving, Pending
<1>3. ASSUME NEW status, ReplyOnly(status) PROVE SessionFlagsAgree' /\ Serving'
  BY <1>1, <1>2, <1>3, HandledFlags DEF ReplyOnly
<1>4. ASSUME NEW new \in TrackRecord, SetupDone(new), Req.stream \in Stream
      PROVE  SessionFlagsAgree' /\ Serving'
  <2>1. PICK id \in IdFor(Me) :
           Handled([Me EXCEPT !.tracks[Req.track] = new, !.stream_id = Req.stream,
                              !.session = id], <<Answer(200, id)>>)
    BY <1>4 DEF SetupDone
  <2>2. id \in SessionIds /\ id # NoSession
    BY <1>2, ConstantsAssumption DEF IdFor, Client, NoSession
  <2> DEFINE c == [Me EXCEPT !.tracks[Req.track] = new, !.stream_id = Req.stream,
                             !.session = id]
  <2>3. c \in Client
    BY <1>1, <1>4, <2>2, SetupTrackType DEF FlagsInv
  <2>4. c.playing = Me.playing /\ c.waiting_for_sps = Me.waiting_for_sps
        /\ c.session = id /\ c.tcp_fd = Me.tcp_fd
    BY <1>2 DEF Client
  <2> HIDE DEF c
  <2>5. FlagsAgree(c)
    BY <1>2, <2>2, <2>4 DEF FlagsAgree
  <2> QED
    BY <1>1, <1>2, <2>1, <2>3, <2>4, <2>5, HandledFlags DEF c
<1>5. ASSUME NEW new \in TrackRecord, ~new.active, SetupFailed(new)
      PROVE  SessionFlagsAgree' /\ Serving'
  <2> DEFINE c == [Me EXCEPT !.tracks[Req.track] = new]
  <2>1. c \in Client
    <3>1. Req.track \in Track /\ [Me.tracks EXCEPT ![Req.track] = new] \in [Track -> TrackRecord]
      BY <1>2 DEF Client, Request
    <3> QED
      BY <1>2, <3>1 DEF Client
  <2>2. c.playing = Me.playing /\ c.waiting_for_sps = Me.waiting_for_sps
        /\ c.session = Me.session /\ c.tcp_fd = Me.tcp_fd
        /\ c.tracks = [Me.tracks EXCEPT ![Req.track] = new]
    BY <1>2 DEF Client
  <2>3. \A t \in Track : c.tracks[t].active => Me.tracks[t].active
    BY <1>2, <1>5, <2>2 DEF Client
  <2> HIDE DEF c
  <2>4. FlagsAgree(c)
    BY <1>2, <2>2, <2>3 DEF FlagsAgree
  <2> QED
    BY <1>1, <1>2, <1>5, <2>1, <2>2, <2>4, HandledFlags DEF SetupFailed, c
<1>6. CASE Setup
  <2>1. ClosedTrack \in TrackRecord /\ ~ClosedTrack.active
    BY ClosedTrackType DEF ClosedTrack
  <2>2. ASSUME NEW rtp \in Fds, NEW rtcp \in Fds
        PROVE  /\ [ClosedTrack EXCEPT !.active = TRUE, !.rtp_fd = rtp, !.rtcp_fd = rtcp] \in TrackRecord
               /\ [ClosedTrack EXCEPT !.rtp_fd = rtp, !.rtcp_fd = rtcp] \in TrackRecord
               /\ ~[ClosedTrack EXCEPT !.rtp_fd = rtp, !.rtcp_fd = rtcp].active
    BY <2>1 DEF TrackRecord
  <2>3. [ClosedTrack EXCEPT !.active = TRUE, !.interleaved = TRUE] \in TrackRecord
    BY <2>1 DEF TrackRecord
  <2>4. SetupNoTransport \/ Req.stream \in Stream
    BY <1>6, ConstantsAssumption DEF Setup, SetupTcp, SetupNoPorts, SetupUdp, SetupLastPort,
       SetupBy, NoStream, Asks
  <2>5. CASE SetupNoTransport
    BY <1>3, <2>5 DEF SetupNoTransport
  <2>6. CASE SetupTcp
    BY <1>1, <1>4, <2>3, <2>4, <2>6, <2>5 DEF SetupTcp
  <2>7. CASE SetupNoPorts
    BY <1>5, <2>1, <2>7 DEF SetupNoPorts
  <2>8. ASSUME NEW rtp \in Fds, NEW rtcp \in Fds, SetupUdp(rtp, rtcp)
        PROVE  SessionFlagsAgree' /\ Serving'
    BY <1>4, <2>2, <2>4, <2>5, <2>8 DEF SetupUdp
  <2>9. ASSUME NEW rtp \in Fds, NEW rtcp \in Fds, SetupLastPort(rtp, rtcp)
        PROVE  SessionFlagsAgree' /\ Serving'
    BY <1>5, <2>2, <2>9 DEF SetupLastPort
  <2> QED
    BY <1>6, <2>5, <2>6, <2>7, <2>8, <2>9 DEF Setup
<1>7. CASE Play
  <2>1. Me.session # NoSession
    BY <1>7 DEF Play, NamesSession, SessionStatus
  <2>2. Started(Me) \in Client /\ Started(Me).tcp_fd = Me.tcp_fd /\ FlagsAgree(Started(Me))
    BY <1>2, <2>1 DEF Started, FlagsAgree, Client, FlagsInv, TypeOK
  <2> QED
    BY <1>1, <1>2, <1>7, <2>2, HandledFlags DEF Play
<1>8. CASE Teardown
  <2>1. SessionReset(Me) \in Client
    BY <1>2, NewClientType DEF SessionReset, NewClient, Client
  <2>2. SessionReset(Me).tcp_fd = Me.tcp_fd /\ FlagsAgree(SessionReset(Me))
    BY <1>2 DEF SessionReset, FlagsAgree, Client, AllClosed, ClosedTrack
  <2> QED
    BY <1>1, <1>2, <1>8, <2>1, <2>2, HandledFlags DEF Teardown
<1> QED
  BY <1>3, <1>6, <1>7, <1>8 DEF Handle, Unauthorized, Options, GetParameter, UnknownMethod,
     StreamNotFound, Describe, BadSession

LEMMA FlagsNext == FlagsInv /\ [Next]_vars => FlagsInv'
<1> SUFFICES ASSUME FlagsInv, [Next]_vars PROVE SessionFlagsAgree' /\ Serving'
  BY NextType DEF FlagsInv
<1>1. Me \in Client /\ FlagsAgree(Me) /\ cur \in Slot
  BY DEF FlagsInv, TypeOK, SessionFlagsAgree, Me
<1>2. CASE Handle
  BY <1>2, HandleFlags
<1>3. CASE Accept
  <2>1. pc' = "recv"
    BY <1>3, Zenon DEF Accept, NoPeer, RefusePeer, AcceptPeer, StartPass
  <2>2. CASE NoPeer \/ RefusePeer
    BY <2>1, <2>2 DEF NoPeer, RefusePeer, FlagsInv, SessionFlagsAgree, Serving
  <2>3. CASE \E i \in Slot, fd \in Fds : AcceptPeer(i, fd)
    <3>1. PICK i \in Slot, fd \in Fds, local \in BOOLEAN :
             client' = [client EXCEPT
                ![i] = [ClientReset(@) EXCEPT !.tcp_fd = fd, !.loopback = local]]
      BY <2>3 DEF AcceptPeer
    <3>2. FlagsAgree([NewClient EXCEPT !.tcp_fd = fd, !.loopback = local])
      BY DEF FlagsAgree, NewClient, AllClosed, ClosedTrack, NoSession
    <3> QED
      BY <2>1, <3>1, <3>2 DEF ClientReset, FlagsInv, SessionFlagsAgree, TypeOK, Serving
  <2> QED
    BY <1>3, <2>2, <2>3 DEF Accept
<1>4. CASE SkipFreeSlot
  BY <1>4 DEF SkipFreeSlot, NextSlot, FlagsInv, SessionFlagsAgree, Serving
<1>5. CASE Hangup
  <2>1. SessionFlagsAgree'
    BY <1>5, NewClientFlags, FlagsStep DEF Hangup, ClientReset
  <2> QED
    BY <1>5, <2>1 DEF Hangup, NextSlot, Serving
<1>6. CASE Receive
  <2>1. PICK buf, n : BecomeMe([Me EXCEPT !.rxbuf = buf, !.cseq = n])
    BY <1>6 DEF Receive
  <2> DEFINE c == [Me EXCEPT !.rxbuf = buf, !.cseq = n]
  <2>2. FlagsAgree(c) /\ c.tcp_fd = Me.tcp_fd
    BY <1>1 DEF FlagsAgree, Client
  <2> HIDE DEF c
  <2>3. Me' = c
    BY <1>6, <2>1 DEF Receive, BecomeMe, Me, FlagsInv, TypeOK, c
  <2> QED
    BY <1>6, <2>1, <2>2, <2>3, FlagsStep DEF Receive, Serving, c
<1>7. CASE FinishClient
  <2> DEFINE c == [Me EXCEPT !.rxbuf = AfterOverflow(@)]
             d == [BumpSeq(c, "metadata", 1) EXCEPT !.next_metadata = @ + MetadataInterval]
  <2>1. FlagsAgree(c)
    BY <1>1 DEF FlagsAgree, Client
  <2>2. FlagsAgree(d)
    BY <1>1 DEF FlagsAgree, BumpSeq, Client, Track, TrackRecord
  <2>3. BecomeMe(c) \/ BecomeMe(d)
    BY <1>7 DEF FinishClient
  <2> HIDE DEF c, d
  <2> QED
    BY <1>7, <2>1, <2>2, <2>3, FlagsStep DEF FinishClient, NextSlot, Serving
<1>8. CASE EndFrame \/ Outside
  BY <1>8 DEF EndFrame, Outside, Tick, TakeIdr, loop, FlagsInv, SessionFlagsAgree, Serving, Me
<1>9. CASE Close
  BY <1>9, NewClientFlags DEF Close, ClientReset, SessionFlagsAgree, Serving
<1>10. ASSUME NEW nal \in Nals, PushNal(nal) PROVE SessionFlagsAgree' /\ Serving'
  <2>1. ASSUME NEW c \in Client, FlagsAgree(c)
        PROVE  FlagsAgree([BumpSeq(c, "video", Packets(nal)) EXCEPT !.waiting_for_sps = FALSE])
    BY <2>1 DEF FlagsAgree, BumpSeq, Client, Track, TrackRecord
  <2>2. SessionFlagsAgree'
    BY <1>10, <2>1 DEF PushNal, FlagsInv, SessionFlagsAgree, TypeOK
  <2> QED
    BY <1>10, <2>2 DEF PushNal, Serving, loop
<1>11. CASE UNCHANGED vars
  BY <1>11 DEF vars, loop, FlagsInv, SessionFlagsAgree, Serving, Me
<1> QED
  BY <1>2, <1>3, <1>4, <1>5, <1>6, <1>7, <1>8, <1>9, <1>10, <1>11 DEF Next, Loop

(***************************************************************************)
(* Whatever peers send and whenever they leave, nothing plays, waits or is *)
(* set up outside a session, and a free slot holds nothing of its last     *)
(* client (handle_setup, handle_request, session_reset, client_reset).     *)
(***************************************************************************)
THEOREM FlagsCorrect == Spec => []SessionFlagsAgree
<1>1. Init => FlagsInv
  BY InitType, NewClientFlags DEF Init, FlagsInv, SessionFlagsAgree, Serving
<1>2. FlagsInv => SessionFlagsAgree
  BY DEF FlagsInv
<1> QED
  BY <1>1, <1>2, FlagsNext, PTL DEF Spec

-----------------------------------------------------------------------------
(* The receive buffer has room whenever recv() is called.                  *)

BufferInv == TypeOK /\ BufferHasRoom

(* Each handler that answers takes exactly the request at the head.        *)
LEMMA HandleBuffer ==
    ASSUME TypeOK, Handle
    PROVE  /\ client'[cur].rxbuf = Tail(Me.rxbuf) /\ Me.rxbuf # <<>>
           /\ \A i \in Slot : i # cur => client'[i] = client[i]
           /\ pc' = pc /\ cur' = cur
<1>1. Pending
  BY DEF Handle, Unauthorized, Options, GetParameter, UnknownMethod, StreamNotFound,
     NoStream, Describe, Setup, SetupNoTransport, SetupTcp, SetupNoPorts, SetupUdp,
     SetupLastPort, SetupBy, BadSession, Play, Teardown, NamesSession, Asks
<1>2. Me \in Client
  BY DEF TypeOK, Me
<1>3. ASSUME NEW c, NEW msgs, Handled(c, msgs), c.rxbuf = Me.rxbuf,
             "rxbuf" \in DOMAIN c
      PROVE  /\ client'[cur].rxbuf = Tail(Me.rxbuf)
             /\ \A i \in Slot : i # cur => client'[i] = client[i]
             /\ pc' = pc /\ cur' = cur
  BY <1>3 DEF Handled, BecomeMe, Rest, TypeOK, loop
<1>4. \E c, msgs : Handled(c, msgs) /\ c.rxbuf = Me.rxbuf /\ "rxbuf" \in DOMAIN c
  <2>1. Me.rxbuf = Me.rxbuf /\ "rxbuf" \in DOMAIN Me
    BY <1>2 DEF Client
  <2>2. ASSUME NEW status, ReplyOnly(status)
        PROVE  \E msgs : Handled(Me, msgs)
    BY <2>2 DEF ReplyOnly
  <2>3. ASSUME NEW new, SetupDone(new) \/ SetupFailed(new)
        PROVE  \E c, msgs : Handled(c, msgs) /\ c.rxbuf = Me.rxbuf /\ "rxbuf" \in DOMAIN c
    <3>1. CASE SetupDone(new)
      <4>1. PICK id : Handled([Me EXCEPT !.tracks[Req.track] = new, !.stream_id = Req.stream,
                              !.session = id], <<Answer(200, id)>>)
        BY <3>1 DEF SetupDone
      <4> DEFINE c == [Me EXCEPT !.tracks[Req.track] = new, !.stream_id = Req.stream,
                                 !.session = id]
      <4>2. c.rxbuf = Me.rxbuf /\ "rxbuf" \in DOMAIN c
        BY <1>2 DEF Client
      <4> HIDE DEF c
      <4> QED
        BY <4>1, <4>2 DEF c
    <3>2. CASE SetupFailed(new)
      <4> DEFINE c == [Me EXCEPT !.tracks[Req.track] = new]
      <4>1. c.rxbuf = Me.rxbuf /\ "rxbuf" \in DOMAIN c
        BY <1>2 DEF Client
      <4>2. Handled(c, <<Answer(500, NoSession)>>)
        BY <3>2 DEF SetupFailed
      <4> HIDE DEF c
      <4> QED
        BY <4>1, <4>2
    <3> QED
      BY <2>3, <3>1, <3>2
  <2>4. Started(Me).rxbuf = Me.rxbuf /\ "rxbuf" \in DOMAIN Started(Me)
    BY <1>2 DEF Started, Client
  <2>5. SessionReset(Me).rxbuf = Me.rxbuf /\ "rxbuf" \in DOMAIN SessionReset(Me)
    BY <1>2 DEF SessionReset, Client
  <2> QED
    BY <2>1, <2>2, <2>3, <2>4, <2>5 DEF Handle, Unauthorized, Options, GetParameter,
       UnknownMethod, StreamNotFound, Describe, BadSession, Setup, SetupNoTransport, SetupTcp,
       SetupNoPorts, SetupUdp, SetupLastPort, Play, Teardown
<1> QED
  BY <1>1, <1>3, <1>4 DEF Pending

LEMMA BufferNext == BufferInv /\ [Next]_vars => BufferInv'
<1> SUFFICES ASSUME BufferInv, [Next]_vars PROVE BufferHasRoom'
  BY NextType DEF BufferInv
<1> USE ConstantsAssumption
<1>1. /\ cur \in Slot /\ Me \in Client /\ Me.rxbuf \in Seq(Item)
      /\ \A i \in Slot : client[i] \in Client /\ client[i].rxbuf \in Seq(Item)
  BY DEF BufferInv, TypeOK, Me, Client
<1>2. ASSUME \A i \in Slot : client'[i].rxbuf = client[i].rxbuf,
             pc # "drain", pc' # "drain"
      PROVE  BufferHasRoom'
  BY <1>2 DEF BufferInv, BufferHasRoom
<1>3. ASSUME NEW i \in Slot, NEW c, client' = [client EXCEPT ![i] = c], c.rxbuf = <<>>,
             pc # "drain"
      PROVE  BufferHasRoom'
  BY <1>3 DEF BufferInv, BufferHasRoom, TypeOK
<1>4. CASE Accept
  <2>1. pc = "poll" /\ pc' = "recv"
    BY <1>4, Zenon DEF Accept, NoPeer, RefusePeer, AcceptPeer, StartPass
  <2>2. CASE NoPeer \/ RefusePeer
    BY <1>2, <2>1, <2>2 DEF NoPeer, RefusePeer
  <2>3. CASE \E i \in Slot, fd \in Fds : AcceptPeer(i, fd)
    <3>1. PICK i \in Slot, fd \in Fds, local \in BOOLEAN :
             client' = [client EXCEPT
                ![i] = [ClientReset(@) EXCEPT !.tcp_fd = fd, !.loopback = local]]
      BY <2>3 DEF AcceptPeer
    <3>2. [NewClient EXCEPT !.tcp_fd = fd, !.loopback = local].rxbuf = <<>>
      BY DEF NewClient
    <3> QED
      BY <1>3, <2>1, <3>1, <3>2 DEF ClientReset
  <2> QED
    BY <1>4, <2>2, <2>3 DEF Accept
<1>5. CASE SkipFreeSlot
  BY <1>2, <1>5 DEF SkipFreeSlot, NextSlot
<1>6. CASE Hangup
  <2>1. client' = [client EXCEPT ![cur] = NewClient] /\ pc # "drain"
    BY <1>6 DEF Hangup, BecomeMe, ClientReset
  <2>2. NewClient.rxbuf = <<>>
    BY DEF NewClient
  <2> QED
    BY <1>1, <1>3, <2>1, <2>2, Zenon
<1>7. CASE Receive
  <2>1. PICK n \in 0 .. MaxBatch : \E batch \in [1 .. n -> Requests] :
           /\ n + Len(Me.rxbuf) <= RxCapacity
           /\ BecomeMe([Me EXCEPT !.rxbuf = @ \o Numbered(batch, n), !.cseq = @ + n])
    BY <1>7 DEF Receive
  <2>2. PICK batch \in [1 .. n -> Requests] :
           BecomeMe([Me EXCEPT !.rxbuf = @ \o Numbered(batch, n), !.cseq = @ + n])
    BY <2>1
  <2> DEFINE c == [Me EXCEPT !.rxbuf = @ \o Numbered(batch, n), !.cseq = @ + n]
  <2>3. c.rxbuf = Me.rxbuf \o Numbered(batch, n)
    BY <1>1 DEF Client
  <2>4. Numbered(batch, n) \in Seq(Item) /\ Len(Numbered(batch, n)) = n
    BY <1>1 DEF Numbered, Item, Client
  <2>5. Len(c.rxbuf) <= RxCapacity /\ Len(c.rxbuf) \in Nat
    BY <1>1, <2>1, <2>3, <2>4
  <2> HIDE DEF c
  <2>6. client' = [client EXCEPT ![cur] = c] /\ pc = "recv" /\ pc' = "drain" /\ cur' = cur
    BY <1>7, <2>2 DEF Receive, BecomeMe, c
  <2> QED
    BY <1>1, <2>5, <2>6 DEF BufferInv, BufferHasRoom, TypeOK
<1>8. CASE Handle
  <2>1. /\ client'[cur].rxbuf = Tail(Me.rxbuf) /\ Me.rxbuf # <<>>
        /\ \A i \in Slot : i # cur => client'[i] = client[i]
        /\ pc' = pc /\ cur' = cur
    BY <1>8, HandleBuffer DEF BufferInv
  <2>2. Len(Me.rxbuf) <= RxCapacity
    BY <1>1 DEF BufferInv, BufferHasRoom, Me
  <2>3. Len(Tail(Me.rxbuf)) < RxCapacity
    BY <1>1, <2>1, <2>2
  <2> QED
    BY <1>1, <2>1, <2>3 DEF BufferInv, BufferHasRoom
<1>9. CASE FinishClient
  <2> DEFINE c == [Me EXCEPT !.rxbuf = AfterOverflow(@)]
             d == [BumpSeq(c, "metadata", 1) EXCEPT !.next_metadata = @ + MetadataInterval]
  <2>1. c.rxbuf = AfterOverflow(Me.rxbuf) /\ d.rxbuf = AfterOverflow(Me.rxbuf)
    BY <1>1 DEF BumpSeq, Client
  <2>2. Len(AfterOverflow(Me.rxbuf)) < RxCapacity
    BY <1>1 DEF AfterOverflow
  <2>3. BecomeMe(c) \/ BecomeMe(d)
    BY <1>9 DEF FinishClient
  <2> HIDE DEF c, d
  <2>4. /\ Len(client'[cur].rxbuf) < RxCapacity
        /\ \A i \in Slot : i # cur => client'[i] = client[i]
    BY <1>1, <2>1, <2>2, <2>3 DEF BecomeMe, BufferInv, TypeOK
  <2>5. pc' # "drain"
    BY <1>9 DEF FinishClient, NextSlot
  <2> QED
    BY <2>4, <2>5 DEF BufferInv, BufferHasRoom
<1>10. CASE EndFrame
  BY <1>2, <1>10 DEF EndFrame
<1>11. CASE Close
  BY <1>11 DEF Close, ClientReset, NewClient, BufferHasRoom
<1>12. CASE Outside \/ UNCHANGED vars
  BY <1>12 DEF Outside, Tick, TakeIdr, vars, loop, BufferInv, BufferHasRoom
<1>13. ASSUME NEW nal \in Nals, PushNal(nal) PROVE BufferHasRoom'
  <2>1. ASSUME NEW c \in Client
        PROVE  [BumpSeq(c, "video", Packets(nal)) EXCEPT !.waiting_for_sps = FALSE].rxbuf = c.rxbuf
    BY DEF BumpSeq, Client
  <2>2. \A i \in Slot : client'[i].rxbuf = client[i].rxbuf
    BY <1>1, <1>13, <2>1 DEF PushNal
  <2> QED
    BY <1>2, <1>13, <2>2 DEF PushNal, loop
<1> QED
  BY <1>4, <1>5, <1>6, <1>7, <1>8, <1>9, <1>10, <1>11, <1>12, <1>13 DEF Next, Loop

(***************************************************************************)
(* However much a peer pipelines, rtsp_server_poll never calls recv() with *)
(* a full buffer: it is a hangup the peer did not make.                    *)
(***************************************************************************)
THEOREM BufferCorrect == Spec => []BufferHasRoom
<1>1. Init => BufferInv
  BY InitType, ConstantsAssumption DEF Init, BufferInv, BufferHasRoom, NewClient
<1>2. BufferInv => BufferHasRoom
  BY DEF BufferInv
<1> QED
  BY <1>1, <1>2, BufferNext, PTL DEF Spec

-----------------------------------------------------------------------------
(***************************************************************************)
(* No descriptor of the server leaks or is closed by someone it does not   *)
(* belong to.  FdsAccounted is inductive together with the types: every    *)
(* action replaces the descriptors of one slot by fresh ones.              *)
(***************************************************************************)
FdsInv == TypeOK /\ FdsAccounted

(* The part of FdsDistinct that speaks of one track.                       *)
TrackOk(t) ==
    /\ (t.rtp_fd = NoFd) = (t.rtcp_fd = NoFd)
    /\ t.rtp_fd # NoFd => t.rtp_fd # t.rtcp_fd
    /\ t.active => t.interleaved = (t.rtp_fd = NoFd)

SameFds(c, d) == d.tcp_fd = c.tcp_fd /\ \A t \in Track :
                    /\ d.tracks[t].rtp_fd = c.tracks[t].rtp_fd
                    /\ d.tracks[t].rtcp_fd = c.tracks[t].rtcp_fd
                    /\ d.tracks[t].active = c.tracks[t].active
                    /\ d.tracks[t].interleaved = c.tracks[t].interleaved

(* What a slot holds is decided by its descriptors alone.                  *)
LEMMA SameHeld ==
    ASSUME NEW c, NEW d, SameFds(c, d)
    PROVE  HeldBy(d) = HeldBy(c) /\ (FdsDistinct(c) => FdsDistinct(d))
<1>1. TrackFds(d.tracks["video"]) = TrackFds(c.tracks["video"])
  BY DEF SameFds, TrackFds, Track
<1>2. TrackFds(d.tracks["metadata"]) = TrackFds(c.tracks["metadata"])
  BY DEF SameFds, TrackFds, Track
<1>3. AllTrackFds(d) = AllTrackFds(c) /\ d.tcp_fd = c.tcp_fd
  BY <1>1, <1>2 DEF AllTrackFds, SameFds
<1>4. ASSUME FdsDistinct(c) PROVE FdsDistinct(d)
  BY <1>1, <1>2, <1>3, <1>4 DEF FdsDistinct, SameFds
<1> QED
  BY <1>3, <1>4 DEF HeldBy

(* A step that leaves every descriptor where it was.                       *)
LEMMA FdsSame ==
    ASSUME FdsAccounted, open' = open, \A i \in Slot : SameFds(client[i], client'[i])
    PROVE  FdsAccounted'
<1>1. \A i \in Slot : /\ HeldBy(client'[i]) = HeldBy(client[i])
                      /\ FdsDistinct(client[i]) => FdsDistinct(client'[i])
  BY SameHeld
<1>2. UNION {HeldBy(client'[i]) : i \in Slot} = UNION {HeldBy(client[i]) : i \in Slot}
  BY <1>1
<1> QED
  BY <1>1, <1>2 DEF FdsAccounted

(* A step that replaces what slot i holds by descriptors nobody else has.  *)
LEMMA FdsSwap ==
    ASSUME FdsInv, NEW i \in Slot, NEW d,
           client' = [client EXCEPT ![i] = d],
           open' = (open \ HeldBy(client[i])) \cup HeldBy(d),
           HeldBy(d) \cap (open \ HeldBy(client[i])) = {},
           FdsDistinct(d)
    PROVE  FdsAccounted'
<1>1. client'[i] = d /\ \A j \in Slot : j # i => client'[j] = client[j]
  BY DEF FdsInv, TypeOK
<1>2. \A j \in Slot : j # i => /\ HeldBy(client[j]) \cap HeldBy(client[i]) = {}
                               /\ HeldBy(client[j]) \subseteq open
  BY DEF FdsInv, FdsAccounted
<1>3. ASSUME NEW j \in Slot, NEW k \in Slot, j # k
      PROVE  HeldBy(client'[j]) \cap HeldBy(client'[k]) = {}
  <2>1. CASE j = i
    BY <1>1, <1>2, <1>3, <2>1
  <2>2. CASE k = i
    BY <1>1, <1>2, <1>3, <2>2
  <2>3. CASE j # i /\ k # i
    BY <1>1, <1>3, <2>3 DEF FdsInv, FdsAccounted
  <2> QED
    BY <2>1, <2>2, <2>3
<1>4. open' = UNION {HeldBy(client'[j]) : j \in Slot}
  <2>1. ASSUME NEW fd \in open' PROVE \E j \in Slot : fd \in HeldBy(client'[j])
    <3>1. CASE fd \in HeldBy(d)
      BY <1>1, <3>1
    <3>2. CASE fd \in open /\ fd \notin HeldBy(client[i])
      <4>1. PICK j \in Slot : fd \in HeldBy(client[j])
        BY <3>2 DEF FdsInv, FdsAccounted
      <4> QED
        BY <1>1, <3>2, <4>1
    <3> QED
      BY <2>1, <3>1, <3>2
  <2>2. ASSUME NEW j \in Slot, NEW fd \in HeldBy(client'[j]) PROVE fd \in open'
    BY <1>1, <1>2, <2>2
  <2> QED
    BY <2>1, <2>2
<1>5. ASSUME NEW j \in Slot PROVE FdsDistinct(client'[j])
  BY <1>1 DEF FdsInv, FdsAccounted
<1> QED
  BY <1>3, <1>4, <1>5 DEF FdsAccounted

LEMMA NewClientFds == HeldBy(NewClient) = {} /\ FdsDistinct(NewClient)
  BY DEF HeldBy, AllTrackFds, TrackFds, FdsDistinct, NewClient, AllClosed, ClosedTrack,
     NoFd, Track

(* A step that replaces the descriptors of one track of slot cur.          *)
LEMMA ReplaceTrack ==
    ASSUME FdsInv, NEW t \in Track, NEW new \in TrackRecord, NEW d,
           d.tcp_fd = Me.tcp_fd, d.tracks = [Me.tracks EXCEPT ![t] = new], TrackOk(new),
           client' = [client EXCEPT ![cur] = d],
           open' = (open \ TrackFds(Me.tracks[t])) \cup TrackFds(new),
           TrackFds(new) \cap (open \ TrackFds(Me.tracks[t])) = {}
    PROVE  FdsAccounted'
<1>1. cur \in Slot /\ Me = client[cur] /\ Me \in Client /\ Me.tracks \in [Track -> TrackRecord]
  BY DEF FdsInv, TypeOK, Me, Client
<1>2. FdsDistinct(Me) /\ HeldBy(Me) \subseteq open
  BY <1>1 DEF FdsInv, FdsAccounted
<1>3. d.tracks[t] = new /\ \A u \in Track : u # t => d.tracks[u] = Me.tracks[u]
  BY <1>1
<1> DEFINE old == TrackFds(Me.tracks[t])
           kept == HeldBy(Me) \ old
<1>4. HeldBy(d) = kept \cup TrackFds(new) /\ old \subseteq HeldBy(Me)
  <2>1. CASE t = "video"
    BY <1>2, <1>3, <2>1 DEF HeldBy, AllTrackFds, FdsDistinct, Track
  <2>2. CASE t = "metadata"
    BY <1>2, <1>3, <2>2 DEF HeldBy, AllTrackFds, FdsDistinct, Track
  <2> QED
    BY <2>1, <2>2 DEF Track
<1>5. TrackFds(new) \cap kept = {}
  BY <1>2
<1>6. FdsDistinct(d)
  <2>1. d.tcp_fd \notin AllTrackFds(d)
    <3>1. CASE d.tcp_fd = NoFd
      BY <3>1 DEF AllTrackFds, TrackFds
    <3>2. CASE d.tcp_fd # NoFd
      <4>1. d.tcp_fd \in kept /\ d.tcp_fd \notin AllTrackFds(Me)
        BY <1>2, <1>4, <3>2, t \in Track DEF HeldBy, FdsDistinct, AllTrackFds, Track
      <4>2. AllTrackFds(d) \subseteq AllTrackFds(Me) \cup TrackFds(new)
        BY <1>3 DEF AllTrackFds, Track
      <4> QED
        BY <1>5, <4>1, <4>2
    <3> QED
      BY <3>1, <3>2
  <2>2. TrackFds(d.tracks["video"]) \cap TrackFds(d.tracks["metadata"]) = {}
    <3>1. CASE t = "video"
      <4>1. TrackFds(Me.tracks["metadata"]) \subseteq kept
        BY <1>2, <3>1 DEF HeldBy, AllTrackFds, FdsDistinct
      <4> QED
        BY <1>3, <1>5, <3>1, <4>1 DEF Track
    <3>2. CASE t = "metadata"
      <4>1. TrackFds(Me.tracks["video"]) \subseteq kept
        BY <1>2, <3>2 DEF HeldBy, AllTrackFds, FdsDistinct
      <4> QED
        BY <1>3, <1>5, <3>2, <4>1 DEF Track
    <3> QED
      BY <3>1, <3>2 DEF Track
  <2>3. \A u \in Track : TrackOk(d.tracks[u])
    BY <1>2, <1>3 DEF FdsDistinct, TrackOk
  <2> QED
    BY <2>1, <2>2, <2>3 DEF FdsDistinct, TrackOk
<1>7. open' = (open \ HeldBy(Me)) \cup HeldBy(d)
  BY <1>2, <1>4
<1>8. HeldBy(d) \cap (open \ HeldBy(Me)) = {}
  BY <1>4
<1> QED
  BY <1>1, <1>6, <1>7, <1>8, FdsSwap

-----------------------------------------------------------------------------
(* What the handlers do with a record wrapped by Handled.                  *)
LEMMA HandledFds ==
    ASSUME TypeOK, NEW c, NEW msgs, Handled(c, msgs), "rxbuf" \in DOMAIN c
    PROVE  \E d : /\ client' = [client EXCEPT ![cur] = d]
                  /\ d.tcp_fd = c.tcp_fd /\ d.tracks = c.tracks
<1> DEFINE d == [c EXCEPT !.rxbuf = Rest(@)]
<1>1. d.tcp_fd = c.tcp_fd /\ d.tracks = c.tracks
  OBVIOUS
<1>2. client' = [client EXCEPT ![cur] = d]
  BY DEF Handled, BecomeMe
<1> QED
  BY <1>1, <1>2

(* A handler that answers and touches no descriptor.                       *)
LEMMA HandledSame ==
    ASSUME FdsInv, NEW c, NEW msgs, Handled(c, msgs), "rxbuf" \in DOMAIN c,
           c.tcp_fd = Me.tcp_fd, c.tracks = Me.tracks, open' = open
    PROVE  FdsAccounted'
<1>1. PICK d : /\ client' = [client EXCEPT ![cur] = d]
               /\ d.tcp_fd = c.tcp_fd /\ d.tracks = c.tracks
  BY HandledFds DEF FdsInv
<1>2. \A i \in Slot : SameFds(client[i], client'[i])
  BY <1>1 DEF FdsInv, TypeOK, Me, SameFds
<1> QED
  BY <1>2, FdsSame DEF FdsInv

LEMMA ReplyOnlyFds ==
    ASSUME FdsInv, NEW status, ReplyOnly(status)
    PROVE  FdsAccounted'
<1>1. "rxbuf" \in DOMAIN Me
  BY DEF FdsInv, TypeOK, Me, Client
<1> QED
  BY <1>1, HandledSame DEF ReplyOnly

(* SETUP: track_close() of the old sockets, then none or two new ones.     *)
LEMMA SetupFds ==
    ASSUME FdsInv, Setup
    PROVE  FdsAccounted'
<1> DEFINE old == TrackFds(Me.tracks[Req.track])
<1>0. Pending
  BY DEF Setup, SetupNoTransport, SetupTcp, SetupNoPorts, SetupUdp, SetupLastPort, SetupBy, Asks
<1>1. Req.track \in Track /\ Me \in Client /\ "rxbuf" \in DOMAIN Me
  BY <1>0, ReqType DEF FdsInv, Request, Client
<1>2. ASSUME NEW new \in TrackRecord, TrackOk(new), SetupDone(new) \/ SetupFailed(new),
             open' = (open \ old) \cup TrackFds(new), TrackFds(new) \cap (open \ old) = {}
      PROVE  FdsAccounted'
  <2>1. PICK c, msgs : /\ Handled(c, msgs) /\ "rxbuf" \in DOMAIN c
                       /\ c.tcp_fd = Me.tcp_fd
                       /\ c.tracks = [Me.tracks EXCEPT ![Req.track] = new]
    <3>1. CASE SetupDone(new)
      <4>1. PICK id \in IdFor(Me) :
               Handled([Me EXCEPT !.tracks[Req.track] = new, !.stream_id = Req.stream,
                                  !.session = id], <<Answer(200, id)>>)
        BY <3>1 DEF SetupDone
      <4> DEFINE c == [Me EXCEPT !.tracks[Req.track] = new, !.stream_id = Req.stream,
                                 !.session = id]
      <4>2. /\ "rxbuf" \in DOMAIN c /\ c.tcp_fd = Me.tcp_fd
            /\ c.tracks = [Me.tracks EXCEPT ![Req.track] = new]
        BY <1>1 DEF Client
      <4> QED
        BY <4>1, <4>2
    <3>2. CASE SetupFailed(new)
      <4> DEFINE c == [Me EXCEPT !.tracks[Req.track] = new]
      <4>1. /\ "rxbuf" \in DOMAIN c /\ c.tcp_fd = Me.tcp_fd
            /\ c.tracks = [Me.tracks EXCEPT ![Req.track] = new]
        BY <1>1 DEF Client
      <4> QED
        BY <3>2, <4>1 DEF SetupFailed
    <3> QED
      BY <1>2, <3>1, <3>2
  <2>2. PICK d : /\ client' = [client EXCEPT ![cur] = d]
                 /\ d.tcp_fd = c.tcp_fd /\ d.tracks = c.tracks
    BY <2>1, HandledFds DEF FdsInv
  <2> QED
    BY <1>1, <1>2, <2>1, <2>2, ReplaceTrack
<1>3. CASE SetupNoTransport
  BY <1>3, ReplyOnlyFds DEF SetupNoTransport
<1>4. CASE SetupTcp
  <2> DEFINE new == [ClosedTrack EXCEPT !.active = TRUE, !.interleaved = TRUE]
  <2>1. new \in TrackRecord /\ TrackOk(new) /\ TrackFds(new) = {}
    BY ClosedTrackType DEF TrackRecord, ClosedTrack, TrackOk, TrackFds
  <2>2. SetupDone(new) /\ open' = open \ old
    BY <1>4 DEF SetupTcp, CloseTrack, AfterTrackClose
  <2> QED
    BY <1>2, <2>1, <2>2
<1>5. CASE SetupNoPorts
  <2>1. ClosedTrack \in TrackRecord /\ TrackOk(ClosedTrack) /\ TrackFds(ClosedTrack) = {}
    BY ClosedTrackType DEF ClosedTrack, TrackOk, TrackFds
  <2>2. SetupFailed(ClosedTrack) /\ open' = open \ old
    BY <1>5 DEF SetupNoPorts, CloseTrack, AfterTrackClose
  <2> QED
    BY <1>2, <2>1, <2>2
<1>6. ASSUME NEW rtp \in Fds, NEW rtcp \in Fds, SetupUdp(rtp, rtcp) \/ SetupLastPort(rtp, rtcp)
      PROVE  FdsAccounted'
  <2>1. /\ rtp \notin open \ old /\ rtcp \notin (open \ old) \cup {rtp}
        /\ open' = (open \ old) \cup {rtp, rtcp}
    BY <1>6 DEF SetupUdp, SetupLastPort, UdpPair, AfterTrackClose, Lowest
  <2>2. rtp # NoFd /\ rtcp # NoFd /\ rtp # rtcp
    BY <2>1, ConstantsAssumption DEF NoFd
  <2>3. ASSUME NEW new \in {[ClosedTrack EXCEPT !.active = TRUE, !.rtp_fd = rtp, !.rtcp_fd = rtcp],
                            [ClosedTrack EXCEPT !.rtp_fd = rtp, !.rtcp_fd = rtcp]}
        PROVE  new \in TrackRecord /\ TrackOk(new) /\ TrackFds(new) = {rtp, rtcp}
    BY <2>2, <2>3, ClosedTrackType DEF TrackRecord, ClosedTrack, TrackOk, TrackFds
  <2>4. PICK new \in {[ClosedTrack EXCEPT !.active = TRUE, !.rtp_fd = rtp, !.rtcp_fd = rtcp],
                      [ClosedTrack EXCEPT !.rtp_fd = rtp, !.rtcp_fd = rtcp]} :
              SetupDone(new) \/ SetupFailed(new)
    BY <1>6 DEF SetupUdp, SetupLastPort
  <2>5. new \in TrackRecord /\ TrackOk(new) /\ TrackFds(new) = {rtp, rtcp}
    BY <2>3
  <2> QED
    BY <1>2, <2>1, <2>4, <2>5
<1> QED
  BY <1>3, <1>4, <1>5, <1>6 DEF Setup

(* TEARDOWN closes the sockets of both tracks and keeps the connection.    *)
LEMMA TeardownFds ==
    ASSUME FdsInv, Teardown
    PROVE  FdsAccounted'
<1>1. cur \in Slot /\ Me = client[cur] /\ Me \in Client
  BY DEF FdsInv, TypeOK, Me
<1>2. /\ "rxbuf" \in DOMAIN SessionReset(Me) /\ SessionReset(Me).tcp_fd = Me.tcp_fd
      /\ SessionReset(Me).tracks = AllClosed
  BY <1>1 DEF SessionReset, Client
<1>3. PICK d : /\ client' = [client EXCEPT ![cur] = d]
               /\ d.tcp_fd = Me.tcp_fd /\ d.tracks = AllClosed
  BY <1>2, HandledFds DEF Teardown, FdsInv
<1>4. AllTrackFds(d) = {}
  BY <1>3 DEF AllTrackFds, TrackFds, AllClosed, ClosedTrack, Track
<1>5. FdsDistinct(Me) /\ HeldBy(Me) \subseteq open
  BY <1>1 DEF FdsInv, FdsAccounted
<1>6. FdsDistinct(d)
  BY <1>3, <1>4 DEF FdsDistinct, TrackFds, AllClosed, ClosedTrack, NoFd, Track
<1>7. HeldBy(d) = HeldBy(Me) \ AllTrackFds(Me)
  BY <1>3, <1>4, <1>5 DEF HeldBy, FdsDistinct
<1>8. open' = (open \ HeldBy(Me)) \cup HeldBy(d)
  BY <1>5, <1>7 DEF Teardown, HeldBy
<1>9. HeldBy(d) \cap (open \ HeldBy(Me)) = {}
  BY <1>7
<1> QED
  BY <1>1, <1>3, <1>6, <1>8, <1>9, FdsSwap

LEMMA HandleFds ==
    ASSUME FdsInv, Handle
    PROVE  FdsAccounted'
<1>1. Me \in Client
  BY DEF FdsInv, TypeOK, Me
<1>2. CASE Play
  <2>1. /\ "rxbuf" \in DOMAIN Started(Me) /\ Started(Me).tcp_fd = Me.tcp_fd
        /\ Started(Me).tracks = Me.tracks
    BY <1>1 DEF Started, Client
  <2> QED
    BY <1>2, <2>1, HandledSame DEF Play
<1>3. CASE \/ Unauthorized \/ Options \/ GetParameter \/ UnknownMethod
           \/ StreamNotFound \/ Describe \/ BadSession
  BY <1>3, ReplyOnlyFds DEF Unauthorized, Options, GetParameter, UnknownMethod,
     StreamNotFound, Describe, BadSession
<1> QED
  BY <1>2, <1>3, SetupFds, TeardownFds DEF Handle

(* A step that changes no slot's descriptors.                              *)
LEMMA QuietFds ==
    ASSUME FdsInv, open' = open, \/ client' = client
                                \/ \E c : /\ client' = [client EXCEPT ![cur] = c]
                                          /\ SameFds(Me, c)
    PROVE  FdsAccounted'
<1>1. \A i \in Slot : SameFds(client[i], client'[i])
  BY DEF FdsInv, TypeOK, SameFds, Me
<1> QED
  BY <1>1, FdsSame DEF FdsInv

LEMMA FdsNext == FdsInv /\ [Next]_vars => FdsInv'
<1> SUFFICES ASSUME FdsInv, [Next]_vars PROVE FdsAccounted'
  BY NextType DEF FdsInv
<1>1. cur \in Slot /\ Me = client[cur] /\ Me \in Client
  BY DEF FdsInv, TypeOK, Me
<1>2. CASE NoPeer \/ RefusePeer \/ SkipFreeSlot \/ EndFrame \/ Outside \/ UNCHANGED vars
  BY <1>2, QuietFds DEF NoPeer, RefusePeer, SkipFreeSlot, EndFrame, Outside, Tick, TakeIdr, vars
<1>3. ASSUME NEW i \in Slot, NEW fd \in Fds, AcceptPeer(i, fd)
      PROVE  FdsAccounted'
  <2>1. PICK local \in BOOLEAN :
           client' = [client EXCEPT
              ![i] = [ClientReset(@) EXCEPT !.tcp_fd = fd, !.loopback = local]]
    BY <1>3 DEF AcceptPeer
  <2> DEFINE d == [NewClient EXCEPT !.tcp_fd = fd, !.loopback = local]
  <2>2. client' = [client EXCEPT ![i] = d]
    BY <2>1 DEF ClientReset
  <2>3. /\ d.tcp_fd = fd /\ d.tracks = AllClosed
    BY DEF NewClient
  <2>4. fd # NoFd /\ fd \notin open
    BY <1>3, ConstantsAssumption DEF NoFd, AcceptPeer, Lowest
  <2> HIDE DEF d
  <2>5. HeldBy(d) = {fd} /\ FdsDistinct(d)
    BY <2>3, <2>4 DEF HeldBy, AllTrackFds, TrackFds, FdsDistinct, AllClosed, ClosedTrack,
       NoFd, Track
  <2>6. open' = (open \ HeldBy(client[i])) \cup HeldBy(d)
    BY <1>3, <2>5 DEF AcceptPeer
  <2> QED
    BY <2>2, <2>4, <2>5, <2>6, FdsSwap
<1>4. CASE Hangup
  <2>1. client' = [client EXCEPT ![cur] = NewClient] /\ open' = open \ HeldBy(client[cur])
    BY <1>4 DEF Hangup, BecomeMe, ClientReset, Me
  <2> QED
    BY <1>1, <2>1, NewClientFds, FdsSwap
<1>5. CASE Receive
  <2>1. PICK buf, seen :
           client' = [client EXCEPT ![cur] = [Me EXCEPT !.rxbuf = buf, !.cseq = seen]]
    BY <1>5 DEF Receive, BecomeMe
  <2>2. SameFds(Me, [Me EXCEPT !.rxbuf = buf, !.cseq = seen])
    BY <1>1 DEF SameFds, Client
  <2> QED
    BY <1>5, <2>1, <2>2, QuietFds DEF Receive
<1>6. ASSUME NEW c, c.tcp_fd = Me.tcp_fd, c.tracks = Me.tracks, NEW t \in Track, NEW n
      PROVE  SameFds(Me, BumpSeq(c, t, n))
  BY <1>1, <1>6 DEF SameFds, BumpSeq, Client, TrackRecord
<1>7. CASE FinishClient
  <2> DEFINE c == [Me EXCEPT !.rxbuf = AfterOverflow(@)]
             b == BumpSeq(c, "metadata", 1)
             d == [b EXCEPT !.next_metadata = @ + MetadataInterval]
  <2>1. c.tcp_fd = Me.tcp_fd /\ c.tracks = Me.tracks
    BY <1>1 DEF Client
  <2>2. SameFds(Me, c)
    BY <2>1 DEF SameFds
  <2>3. SameFds(Me, b)
    BY <1>6, <2>1 DEF Track
  <2>4. SameFds(Me, d)
    BY <2>3 DEF SameFds
  <2>5. BecomeMe(c) \/ BecomeMe(d)
    BY <1>7 DEF FinishClient
  <2> HIDE DEF c, d
  <2>6. open' = open
    BY <1>7 DEF FinishClient
  <2> QED
    BY <2>2, <2>4, <2>5, <2>6, QuietFds DEF BecomeMe
<1>8. ASSUME NEW nal \in Nals, PushNal(nal) PROVE FdsAccounted'
  <2>1. ASSUME NEW i \in Slot PROVE SameFds(client[i], client'[i])
    <3>1. client[i] \in Client
      BY DEF FdsInv, TypeOK
    <3>2. CASE Receives(client[i], nal)
      <4> DEFINE b == BumpSeq(client[i], "video", Packets(nal))
      <4>1. SameFds(client[i], b)
        BY <3>1 DEF SameFds, BumpSeq, Client, TrackRecord
      <4>2. client'[i] = [b EXCEPT !.waiting_for_sps = FALSE]
        BY <1>8, <3>2 DEF PushNal
      <4> HIDE DEF b
      <4> QED
        BY <4>1, <4>2 DEF SameFds
    <3>3. CASE ~Receives(client[i], nal)
      BY <1>8, <3>3 DEF PushNal, SameFds
    <3> QED
      BY <3>2, <3>3
  <2> QED
    BY <1>8, <2>1, FdsSame DEF PushNal, FdsInv
<1>9. CASE Close
  <2>1. client' = [i \in Slot |-> NewClient]
    BY <1>9 DEF Close, ClientReset
  <2>2. open' = {}
    BY <1>9 DEF Close, FdsInv, FdsAccounted
  <2> QED
    BY <2>1, <2>2, NewClientFds DEF FdsAccounted
<1> QED
  BY <1>2, <1>3, <1>4, <1>5, <1>7, <1>8, <1>9, HandleFds DEF Next, Loop, Accept

(***************************************************************************)
(* Through every order of SETUP, failed SETUP, TEARDOWN, hangup, reuse of  *)
(* a slot and shutdown, what the process has open is what its slots hold,  *)
(* each descriptor once (track_close, client_reset, bind_udp_pair).        *)
(***************************************************************************)
THEOREM FdsCorrect == Spec => []FdsAccounted
<1>1. Init => FdsInv
  <2> SUFFICES ASSUME Init PROVE FdsAccounted
    BY InitType DEF FdsInv
  <2> QED
    BY NewClientFds DEF Init, FdsAccounted
<1>2. FdsInv => FdsAccounted
  BY DEF FdsInv
<1> QED
  BY <1>1, <1>2, FdsNext, PTL DEF Spec
=============================================================================
