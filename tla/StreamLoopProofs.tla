-------------------------- MODULE StreamLoopProofs --------------------------
(***************************************************************************)
(* The loop of mini_streamer with its encoder implements the RTSP server,  *)
(* so every invariant proved of the server holds of the whole loop; and an *)
(* IDR frame asked for by PLAY is never lost on its way.                   *)
(***************************************************************************)
EXTENDS StreamLoop, RtspServerProofs

EncoderOK ==
    /\ ready \in Seq(Frames)
    /\ held \in Frames \cup {NoFrame}
    /\ next \in Nat \ {0}

LEMMA InitEncoder == StreamInit => EncoderOK
  BY DEF StreamInit, EncoderOK

LEMMA EncoderNext == EncoderOK /\ [StreamNext]_streamVars => EncoderOK'
<1> SUFFICES ASSUME EncoderOK, [StreamNext]_streamVars PROVE EncoderOK'
  OBVIOUS
<1>1. CASE ServerStep \/ UNCHANGED streamVars
  BY <1>1 DEF ServerStep, streamVars, encoder, EncoderOK
<1>2. CASE VencStep
  <2>1. CASE GetStream
    <3>1. Head(ready) \in Frames /\ Tail(ready) \in Seq(Frames)
      BY <2>1 DEF GetStream, EncoderOK
    <3> QED
      BY <2>1, <3>1 DEF GetStream, EncoderOK
  <2>2. CASE NothingReady
    BY <2>2 DEF NothingReady, encoder, EncoderOK
  <2>3. CASE SkipUnit \/ PushUnit \/ ReleaseStream
    BY <2>3 DEF SkipUnit, PushUnit, ReleaseStream, EncoderOK
  <2> QED
    BY <1>2, <2>1, <2>2, <2>3 DEF VencStep
<1>3. ASSUME NEW f \in Frames, Encode(f) PROVE EncoderOK'
  BY <1>3 DEF Encode, EncoderOK
<1> QED
  BY <1>1, <1>2, <1>3 DEF StreamNext

LEMMA PushedNal ==
    ASSUME EncoderOK, PushUnit
    PROVE  NalAt(held, next) \in Nals
<1>1. held \in Frames /\ next \in 1 .. Count(held) /\ ~Empty(held.units[next])
  <2>1. Count(held) \in Int
    BY StreamAssumption DEF EncoderOK, PushUnit, Pushing, Count, Frame
  <2> QED
    BY <2>1 DEF EncoderOK, PushUnit, Pushing
<1> QED
  BY <1>1, StreamAssumption

(* Every step of the loop is a step of the server, or unseen by it.        *)
LEMMA StepsRefine == EncoderOK /\ [StreamNext]_streamVars => [Next]_vars
<1> SUFFICES ASSUME EncoderOK, [StreamNext]_streamVars PROVE [Next]_vars
  OBVIOUS
<1>1. CASE ServerStep
  BY <1>1 DEF ServerStep, Next, Loop, Outside
<1>2. CASE NothingReady \/ ReleaseStream
  BY <1>2 DEF NothingReady, ReleaseStream, Next, Loop
<1>3. CASE GetStream \/ SkipUnit
  BY <1>3 DEF GetStream, SkipUnit
<1>4. CASE PushUnit
  BY <1>4, PushedNal DEF PushUnit, Next
<1>5. ASSUME NEW f \in Frames, Encode(f) PROVE [Next]_vars
  <2>1. f.stream \in Stream
    BY StreamAssumption DEF Frame
  <2> QED
    BY <1>5, <2>1 DEF Encode, Next, Outside
<1>6. CASE UNCHANGED streamVars
  BY <1>6 DEF streamVars
<1> QED
  BY <1>1, <1>2, <1>3, <1>4, <1>5, <1>6 DEF StreamNext, VencStep

(***************************************************************************)
(* The loop of mini_streamer.c, with frames got, pushed and released and   *)
(* an encoder that runs on by itself, implements the server's own          *)
(* specification.                                                          *)
(***************************************************************************)
THEOREM LoopImplementsServer == StreamSpec => ServerSpec
<1>1. StreamInit => Init
  BY DEF StreamInit
<1> QED
  BY <1>1, InitEncoder, EncoderNext, StepsRefine, PTL DEF StreamSpec, ServerSpec, Spec

(***************************************************************************)
(* So the running program keeps what was proved of the server: types,      *)
(* session flags, room in the receive buffer, and the account of           *)
(* descriptors.                                                            *)
(***************************************************************************)
THEOREM LoopKeepsServer ==
    StreamSpec => [](TypeOK /\ SessionFlagsAgree /\ BufferHasRoom /\ FdsAccounted)
  BY LoopImplementsServer, TypeCorrect, FlagsCorrect, BufferCorrect, FdsCorrect, PTL
     DEF ServerSpec

-----------------------------------------------------------------------------
(* What a step of the server means for a peer that awaits an IDR frame.    *)

(* Slot i was answered neither PLAY nor SETUP and waits no more than it did. *)
Unasked(i) ==
    /\ ~Answered(i, "PLAY")
    /\ ~Answered(i, "SETUP") /\ client'[i].playing =>
          /\ client'[i].stream_id = client[i].stream_id
          /\ client'[i].waiting_for_sps => client[i].waiting_for_sps
          /\ client'[i].tracks["video"].active => client[i].tracks["video"].active

LEMMA SilentUnasked ==
    ASSUME TypeOK, NEW i \in Slot, client' = client, out' = Silence
    PROVE  Unasked(i)
  BY DEF Unasked, Answered, Silence

(* The messages of a step of slot cur, one of them at most a confirmation. *)
LEMMA MineUnasked ==
    ASSUME TypeOK, NEW i \in Slot, NEW c, BecomeMe(c),
           ~Answered(i, "PLAY"),
           ~Answered(cur, "SETUP") /\ c.playing =>
              /\ c.stream_id = Me.stream_id
              /\ c.waiting_for_sps => Me.waiting_for_sps
              /\ c.tracks["video"].active => Me.tracks["video"].active
    PROVE  Unasked(i)
<1>1. client'[cur] = c /\ \A j \in Slot : j # cur => client'[j] = client[j]
  BY DEF TypeOK, BecomeMe
<1> QED
  BY <1>1 DEF Unasked, Me

(* A handler that answers with one message.                                *)
LEMMA OneReply ==
    ASSUME TypeOK, NEW i \in Slot, NEW status, NEW id, NEW method,
           out' = [j \in Slot |-> IF j = cur THEN <<Answer(status, id)>> ELSE <<>>]
    PROVE  Answered(i, method) <=> (i = cur /\ status = 200 /\ Req.method = method)
<1>1. CASE i = cur
  BY <1>1 DEF Answered, Answer
<1>2. CASE i # cur
  BY <1>2 DEF Answered
<1> QED
  BY <1>1, <1>2

LEMMA ReplyOnlyUnasked ==
    ASSUME TypeOK, NEW i \in Slot, NEW status, ReplyOnly(status),
           status # 200 \/ Req.method # "PLAY"
    PROVE  Unasked(i)
<1> DEFINE c == [Me EXCEPT !.rxbuf = Rest(@)]
<1>1. BecomeMe(c) /\ SendMe(<<Answer(status, NoSession)>>)
  BY DEF ReplyOnly, Handled
<1>2. ~Answered(i, "PLAY")
  BY <1>1, OneReply DEF SendMe
<1>3. /\ c.stream_id = Me.stream_id /\ c.waiting_for_sps = Me.waiting_for_sps
      /\ c.tracks = Me.tracks
  BY DEF TypeOK, Me, Client
<1> HIDE DEF c
<1> QED
  BY <1>1, <1>2, <1>3, MineUnasked

LEMMA SetupUnasked ==
    ASSUME TypeOK, NEW i \in Slot, Setup
    PROVE  Unasked(i)
<1>1. Pending /\ Req.method = "SETUP"
  BY DEF Setup, SetupNoTransport, SetupTcp, SetupNoPorts, SetupUdp, SetupLastPort, SetupBy, Asks
<1>2. Me \in Client /\ Req.track \in Track
  BY <1>1, ReqType DEF Request
<1>3. CASE SetupNoTransport
  BY <1>3, ReplyOnlyUnasked DEF SetupNoTransport
<1>4. ASSUME NEW new, SetupDone(new) PROVE Unasked(i)
  <2>1. PICK id, c : BecomeMe(c) /\ SendMe(<<Answer(200, id)>>)
    BY <1>4 DEF SetupDone, Handled
  <2>2. ~Answered(i, "PLAY") /\ Answered(cur, "SETUP")
    BY <1>1, <2>1, OneReply DEF SendMe, TypeOK
  <2> QED
    BY <2>1, <2>2, MineUnasked
<1>5. ASSUME NEW left, left.active = FALSE, SetupFailed(left) PROVE Unasked(i)
  <2> DEFINE b == [Me EXCEPT !.tracks[Req.track] = left]
             c == [b EXCEPT !.rxbuf = Rest(@)]
  <2>1. BecomeMe(c) /\ SendMe(<<Answer(500, NoSession)>>)
    BY <1>5 DEF SetupFailed, Handled
  <2>2. ~Answered(i, "PLAY")
    BY <1>1, <2>1, OneReply DEF SendMe
  <2>3. /\ b.stream_id = Me.stream_id /\ b.waiting_for_sps = Me.waiting_for_sps
        /\ b.tracks["video"].active => Me.tracks["video"].active
    BY <1>2, <1>5 DEF Client, Track
  <2> HIDE DEF b
  <2>4. /\ c.stream_id = Me.stream_id /\ c.waiting_for_sps = Me.waiting_for_sps
        /\ c.tracks["video"].active => Me.tracks["video"].active
    BY <2>3
  <2> HIDE DEF c
  <2> QED
    BY <2>1, <2>2, <2>4, MineUnasked
<1>6. CASE SetupTcp
  BY <1>4, <1>6 DEF SetupTcp
<1>7. CASE SetupNoPorts
  <2>1. ClosedTrack.active = FALSE
    BY DEF ClosedTrack
  <2> QED
    BY <1>5, <1>7, <2>1 DEF SetupNoPorts
<1>8. ASSUME NEW rtp \in Fds, NEW rtcp \in Fds, SetupUdp(rtp, rtcp) \/ SetupLastPort(rtp, rtcp)
      PROVE  Unasked(i)
  <2>1. [ClosedTrack EXCEPT !.rtp_fd = rtp, !.rtcp_fd = rtcp].active = FALSE
    BY DEF ClosedTrack
  <2> QED
    BY <1>4, <1>5, <1>8, <2>1 DEF SetupUdp, SetupLastPort
<1> QED
  BY <1>3, <1>6, <1>7, <1>8 DEF Setup

LEMMA TeardownUnasked ==
    ASSUME TypeOK, NEW i \in Slot, Teardown
    PROVE  Unasked(i)
<1> DEFINE c == [SessionReset(Me) EXCEPT !.rxbuf = Rest(@)]
           msgs == Append(Byes(Me), Answer(200, NoSession))
<1>1. BecomeMe(c) /\ SendMe(msgs) /\ Req.method = "TEARDOWN"
  BY DEF Teardown, Handled, NamesSession, Asks
<1>2. \A k \in DOMAIN msgs : msgs[k].kind = "reply" => msgs[k].req.method = "TEARDOWN"
  <2> DEFINE bye(t) == IF Me.tracks[t].active THEN <<[kind |-> "bye", track |-> t]>> ELSE <<>>
  <2>0. ASSUME NEW t \in Track PROVE bye(t) \in Seq(Bye)
    <3>1. [kind |-> "bye", track |-> t] \in Bye
      BY DEF Bye
    <3>2. <<[kind |-> "bye", track |-> t]>> \in Seq(Bye) /\ <<>> \in Seq(Bye)
      BY <3>1
    <3> QED
      BY <3>2
  <2>1. Byes(Me) \in Seq(Bye)
    <3>1. bye("video") \in Seq(Bye) /\ bye("metadata") \in Seq(Bye)
      BY <2>0 DEF Track
    <3>2. Byes(Me) = bye("video") \o bye("metadata")
      BY DEF Byes
    <3> HIDE DEF bye
    <3> QED
      BY <3>1, <3>2
  <2>2. ASSUME NEW k \in DOMAIN msgs
        PROVE  msgs[k] \in Bye \/ msgs[k] = Answer(200, NoSession)
    BY <2>1, <2>2
  <2> QED
    BY <1>1, <2>2 DEF Bye, Answer
<1> HIDE DEF msgs
<1>3. ~Answered(i, "PLAY")
  BY <1>1, <1>2 DEF SendMe, Answered
<1>4. c.playing = FALSE
  BY DEF SessionReset, TypeOK, Me, Client
<1> HIDE DEF c
<1> QED
  BY <1>1, <1>3, <1>4, MineUnasked

(* The poll pass outside the handlers, the clock and the shutdown.         *)
LEMMA PollUnasked ==
    ASSUME TypeOK, NEW i \in Slot,
           \/ Accept \/ SkipFreeSlot \/ Hangup \/ Receive \/ FinishClient \/ Close \/ Tick
    PROVE  Unasked(i) /\ idr' = idr
<1>1. CASE NoPeer \/ RefusePeer \/ SkipFreeSlot \/ Tick
  BY <1>1, SilentUnasked DEF NoPeer, RefusePeer, StartPass, SkipFreeSlot, Tick, server
<1>2. ASSUME NEW j \in Slot, NEW fd \in Fds, AcceptPeer(j, fd)
      PROVE  Unasked(i) /\ idr' = idr
  <2>1. out' = Silence /\ idr' = idr
    BY <1>2 DEF AcceptPeer, StartPass, server
  <2>2. client'[i] = client[i] \/ client'[i].playing = FALSE
    BY <1>2 DEF AcceptPeer, ClientReset, NewClient, TypeOK
  <2> QED
    BY <2>1, <2>2 DEF Unasked, Answered, Silence
<1>3. CASE Hangup
  <2>1. out' = Silence /\ idr' = idr
    BY <1>3 DEF Hangup, server
  <2>2. client'[i] = client[i] \/ client'[i].playing = FALSE
    BY <1>3 DEF Hangup, BecomeMe, ClientReset, NewClient, TypeOK
  <2> QED
    BY <2>1, <2>2 DEF Unasked, Answered, Silence
<1>4. CASE Receive
  <2>1. PICK buf, seen : BecomeMe([Me EXCEPT !.rxbuf = buf, !.cseq = seen])
    BY <1>4 DEF Receive
  <2>2. out' = Silence /\ idr' = idr
    BY <1>4 DEF Receive, server
  <2>3. ~Answered(i, "PLAY")
    BY <2>2 DEF Answered, Silence
  <2> DEFINE c == [Me EXCEPT !.rxbuf = buf, !.cseq = seen]
  <2>4. /\ c.stream_id = Me.stream_id /\ c.waiting_for_sps = Me.waiting_for_sps
        /\ c.tracks = Me.tracks
    BY DEF TypeOK, Me, Client
  <2> HIDE DEF c
  <2> QED
    BY <2>1, <2>2, <2>3, <2>4, MineUnasked DEF c
<1>5. CASE FinishClient
  <2> DEFINE c == [Me EXCEPT !.rxbuf = AfterOverflow(@)]
             b == BumpSeq(c, "metadata", 1)
             d == [b EXCEPT !.next_metadata = @ + MetadataInterval]
  <2>1. ~Answered(i, "PLAY") /\ idr' = idr
    BY <1>5 DEF FinishClient, SendMe, Answered, Silence, server
  <2>2. /\ c.stream_id = Me.stream_id /\ c.waiting_for_sps = Me.waiting_for_sps
        /\ c.tracks = Me.tracks
    BY DEF TypeOK, Me, Client
  <2>3. /\ b.stream_id = Me.stream_id /\ b.waiting_for_sps = Me.waiting_for_sps
        /\ b.tracks["video"].active = Me.tracks["video"].active
    BY <2>2 DEF BumpSeq, TypeOK, Me, Client, TrackRecord
  <2>4. BecomeMe(c) \/ BecomeMe(d)
    BY <1>5 DEF FinishClient
  <2> HIDE DEF b, c
  <2>5. /\ d.stream_id = Me.stream_id /\ d.waiting_for_sps = Me.waiting_for_sps
        /\ d.tracks["video"].active = Me.tracks["video"].active
    BY <2>3
  <2> HIDE DEF d
  <2> QED
    BY <2>1, <2>2, <2>4, <2>5, MineUnasked
<1>6. CASE Close
  <2>1. out' = Silence /\ idr' = idr /\ client'[i].playing = FALSE
    BY <1>6 DEF Close, ClientReset, NewClient, server
  <2> QED
    BY <2>1 DEF Unasked, Answered, Silence
<1> QED
  BY <1>1, <1>2, <1>3, <1>4, <1>5, <1>6 DEF Accept

LEMMA PlayAsks ==
    ASSUME TypeOK, NEW i \in Slot, Play
    PROVE  /\ idr \subseteq idr'
           /\ IF i = cur THEN /\ client'[i].stream_id = client[i].stream_id
                              /\ client[i].stream_id \in idr'
              ELSE Unasked(i)
<1> DEFINE b == Started(Me)
           c == [b EXCEPT !.rxbuf = Rest(@)]
<1>1. BecomeMe(c) /\ SendMe(<<Answer(200, NoSession)>>) /\ idr' = idr \cup {Me.stream_id}
  BY DEF Play, Handled, IdrFor
<1>2. b.stream_id = Me.stream_id
  BY DEF Started, TypeOK, Me, Client
<1> HIDE DEF b
<1>3. c.stream_id = Me.stream_id
  BY <1>2
<1> HIDE DEF c
<1>4. client'[cur] = c /\ \A j \in Slot : j # cur => client'[j] = client[j]
  BY <1>1 DEF BecomeMe, TypeOK
<1>5. i # cur => ~Answered(i, "PLAY")
  BY <1>1 DEF SendMe, Answered
<1> QED
  BY <1>1, <1>3, <1>4, <1>5 DEF Unasked, Me

(* Every step of the server: a peer is served an IDR request by its PLAY,  *)
(* and otherwise does not come to wait.                                    *)
LEMMA ServerAsks ==
    ASSUME TypeOK, NEW i \in Slot, ServerStep
    PROVE  /\ idr \subseteq idr'
           /\ \/ Unasked(i)
              \/ /\ client'[i].stream_id = client[i].stream_id
                 /\ client[i].stream_id \in idr'
<1>1. CASE Handle
  <2>1. CASE Play
    BY <2>1, PlayAsks
  <2>2. CASE \/ Unauthorized \/ Options \/ GetParameter \/ UnknownMethod
             \/ StreamNotFound \/ Describe \/ BadSession
    <3>1. PICK status : ReplyOnly(status) /\ (status # 200 \/ Req.method # "PLAY")
      BY <2>2 DEF Unauthorized, Options, GetParameter, UnknownMethod, StreamNotFound,
         Describe, BadSession, Asks
    <3> QED
      BY <3>1, ReplyOnlyUnasked DEF ReplyOnly
  <2>3. CASE Setup
    <3>1. idr' = idr
      BY <2>3 DEF Setup, SetupNoTransport, ReplyOnly, SetupTcp, SetupNoPorts, CloseTrack,
         SetupUdp, SetupLastPort, UdpPair
    <3> QED
      BY <2>3, <3>1, SetupUnasked
  <2>4. CASE Teardown
    BY <2>4, TeardownUnasked DEF Teardown
  <2> QED
    BY <1>1, <2>1, <2>2, <2>3, <2>4 DEF Handle
<1>2. CASE \/ Accept \/ SkipFreeSlot \/ Hangup \/ Receive \/ FinishClient \/ Close \/ Tick
  BY <1>2, PollUnasked
<1> QED
  BY <1>1, <1>2 DEF ServerStep

-----------------------------------------------------------------------------
(* An IDR frame that is coming goes on coming until it is pushed.          *)

IdrInv ==
    /\ FlagsInv /\ EncoderOK
    /\ \A i \in Slot : asked[i] # NotAsked => asked[i] = client[i].stream_id
    /\ IdrServed

LEMMA ServerIdr == IdrInv /\ ServerStep => \A i \in Slot :
    /\ asked'[i] # NotAsked => asked'[i] = client'[i].stream_id
    /\ Awaits(i)' => IdrComing(asked[i])'
<1> SUFFICES ASSUME IdrInv, ServerStep, NEW i \in Slot
             PROVE  /\ asked'[i] # NotAsked => asked'[i] = client'[i].stream_id
                    /\ Awaits(i)' => IdrComing(asked[i])'
  OBVIOUS
<1>1. TypeOK /\ ready' = ready /\ held' = held /\ next' = next
  BY DEF IdrInv, FlagsInv, ServerStep, encoder
<1>2. idr \subseteq idr'
  BY <1>1, ServerAsks
<1>3. ASSUME asked'[i] = asked[i], IdrComing(asked[i]) PROVE IdrComing(asked[i])'
  BY <1>1, <1>2, <1>3 DEF IdrComing
<1>4. asked'[i] = IF Answered(i, "PLAY") THEN client[i].stream_id
                  ELSE IF Answered(i, "SETUP") \/ ~client'[i].playing
                       THEN NotAsked ELSE asked[i]
  BY DEF ServerStep, NoteAsked
<1>5. CASE Answered(i, "PLAY")
  <2>1. client'[i].stream_id = client[i].stream_id /\ client[i].stream_id \in idr'
    BY <1>1, <1>5, ServerAsks DEF Unasked
  <2>2. asked'[i] = client[i].stream_id
    BY <1>4, <1>5
  <2>3. IdrComing(asked[i])'
    BY <2>1, <2>2 DEF IdrComing
  <2> QED
    BY <2>1, <2>2, <2>3
<1>6. CASE ~Answered(i, "PLAY") /\ (Answered(i, "SETUP") \/ ~client'[i].playing)
  BY <1>4, <1>6 DEF Awaits
<1>7. CASE ~Answered(i, "PLAY") /\ ~Answered(i, "SETUP") /\ client'[i].playing
  <2>1. asked'[i] = asked[i]
    BY <1>4, <1>7
  <2>2. CASE Unasked(i)
    <3>1. client'[i].stream_id = client[i].stream_id /\ (Awaits(i)' => Awaits(i))
      BY <1>7, <2>1, <2>2 DEF Unasked, Awaits
    <3>2. Awaits(i) => IdrComing(asked[i])
      BY DEF IdrInv, IdrServed
    <3>3. asked[i] # NotAsked => asked[i] = client[i].stream_id
      BY DEF IdrInv
    <3> QED
      BY <1>3, <2>1, <3>1, <3>2, <3>3
  <2>3. CASE /\ client'[i].stream_id = client[i].stream_id
             /\ client[i].stream_id \in idr'
    <3>1. asked[i] # NotAsked => asked[i] = client[i].stream_id
      BY DEF IdrInv
    <3>2. asked'[i] # NotAsked => IdrComing(asked[i])'
      BY <2>1, <2>3, <3>1 DEF IdrComing
    <3> QED
      BY <2>1, <2>3, <3>1, <3>2 DEF Awaits
  <2> QED
    BY <1>1, <2>2, <2>3, ServerAsks
<1> QED
  BY <1>5, <1>6, <1>7

LEMMA EncodeIdr ==
    ASSUME IdrInv, NEW f \in Frames, Encode(f), NEW i \in Slot
    PROVE  /\ client' = client /\ asked' = asked
           /\ Awaits(i)' => IdrComing(asked[i])'
<1>1. client' = client /\ asked' = asked /\ held' = held /\ next' = next
  BY DEF Encode, TakeIdr, vars
<1>2. ready \in Seq(Frames) /\ ready' = Append(ready, f)
  BY DEF Encode, IdrInv, EncoderOK
<1>3. \A k \in DOMAIN ready : k \in DOMAIN ready' /\ ready'[k] = ready[k]
  BY <1>2
<1>4. Len(ready) + 1 \in DOMAIN ready' /\ ready'[Len(ready) + 1] = f
  BY <1>2
<1>5. f.stream \in idr => IsIdr(f) /\ idr' = idr \ {f.stream}
  BY DEF Encode, TakeIdr
<1>6. f.stream \notin idr => idr' = idr
  BY DEF Encode, vars, server
<1>7. IdrComing(asked[i]) => IdrComing(asked[i])'
  BY <1>1, <1>3, <1>4, <1>5, <1>6 DEF IdrComing
<1>8. Awaits(i)' => Awaits(i)
  BY <1>1 DEF Awaits
<1> QED
  BY <1>1, <1>7, <1>8 DEF IdrInv, IdrServed

LEMMA VencIdr ==
    ASSUME ~MapFails, IdrInv, VencStep, NEW i \in Slot
    PROVE  /\ asked' = asked /\ client'[i].stream_id = client[i].stream_id
           /\ Awaits(i)' => IdrComing(asked[i])'
<1>1. TypeOK /\ EncoderOK /\ SessionFlagsAgree
  BY DEF IdrInv, FlagsInv
<1>2. Awaits(i) => IdrComing(asked[i])
  BY DEF IdrInv, IdrServed
<1>3. Count(held) \in Int /\ next \in Int
  BY <1>1, StreamAssumption DEF EncoderOK, Count, NoFrame, Frame
<1>4. CASE NothingReady
  BY <1>2, <1>4 DEF NothingReady, EndFrame, encoder, server, Awaits, IdrComing
<1>5. CASE GetStream
  <2>1. /\ client' = client /\ idr' = idr /\ asked' = asked /\ held = NoFrame
        /\ held' = Head(ready) /\ ready' = Tail(ready) /\ next' = 1
        /\ ready \in Seq(Frames) /\ ready # <<>>
    BY <1>1, <1>5 DEF GetStream, vars, server, EncoderOK
  <2>2. Head(ready) = ready[1] /\ Head(ready) \in Frames
    BY <2>1
  <2>3. Head(ready) # NoFrame
    BY <2>2, StreamAssumption DEF Frame, NoFrame, Stream
  <2>4. \A k \in DOMAIN ready : k # 1 => k - 1 \in DOMAIN ready' /\ ready'[k - 1] = ready[k]
    BY <2>1
  <2>5. IdrComing(asked[i]) => IdrComing(asked[i])'
    <3>1. CASE asked[i] \in idr
      BY <2>1, <3>1 DEF IdrComing
    <3>2. ASSUME NEW k \in DOMAIN ready, ready[k].stream = asked[i], IsIdr(ready[k])
          PROVE  IdrComing(asked[i])'
      <4>1. CASE k = 1
        BY <2>1, <2>2, <2>3, <3>2, <4>1 DEF IdrComing, IsIdr
      <4>2. CASE k # 1
        BY <2>1, <2>4, <3>2, <4>2 DEF IdrComing
      <4> QED
        BY <4>1, <4>2
    <3> QED
      BY <2>1, <3>1, <3>2 DEF IdrComing
  <2> QED
    BY <1>2, <2>1, <2>5 DEF Awaits
<1>6. CASE SkipUnit
  <2>1. /\ client' = client /\ idr' = idr /\ asked' = asked /\ held' = held
        /\ ready' = ready /\ next' = next + 1 /\ Empty(held.units[next])
    BY <1>6 DEF SkipUnit, vars, server
  <2>2. \A k \in next .. Count(held) : IsSps(held.units[k]) => k \in next' .. Count(held)
    BY <1>3, <2>1 DEF IsSps
  <2>3. IdrComing(asked[i]) => IdrComing(asked[i])'
    BY <2>1, <2>2 DEF IdrComing
  <2> QED
    BY <1>2, <2>1, <2>3 DEF Awaits
<1>7. CASE PushUnit
  <2> DEFINE nal == NalAt(held, next)
  <2>1. /\ idr' = idr /\ asked' = asked /\ held' = held /\ ready' = ready
        /\ next' = next + 1
    BY <1>7 DEF PushUnit, PushNal
  <2>2. client'[i] = IF Receives(client[i], nal)
                     THEN [BumpSeq(client[i], "video", Packets(nal)) EXCEPT
                             !.waiting_for_sps = FALSE]
                     ELSE client[i]
    BY <1>7 DEF PushUnit, PushNal
  <2>3. CASE Receives(client[i], nal)
    <3>1. client[i] \in Client
      BY <1>1 DEF TypeOK
    <3> DEFINE b == BumpSeq(client[i], "video", Packets(nal))
    <3>2. b.stream_id = client[i].stream_id /\ "waiting_for_sps" \in DOMAIN b
      BY <3>1 DEF BumpSeq, Client
    <3>3. client'[i] = [b EXCEPT !.waiting_for_sps = FALSE]
      BY <2>2, <2>3
    <3> HIDE DEF b
    <3>4. client'[i].stream_id = client[i].stream_id /\ ~client'[i].waiting_for_sps
      BY <3>2, <3>3
    <3> QED
      BY <2>1, <3>4 DEF Awaits
  <2>4. CASE ~Receives(client[i], nal)
    <3>1. client'[i] = client[i]
      BY <2>2, <2>4
    <3>2. ASSUME Awaits(i) PROVE ~(held.stream = asked[i] /\ IsSps(held.units[next]))
      <4>1. client[i].waiting_for_sps /\ client[i].tracks["video"].active
            /\ asked[i] = client[i].stream_id
        BY <3>2 DEF Awaits, IdrInv
      <4>2. client[i].playing /\ client[i].tcp_fd # NoFd
        BY <1>1, <4>1 DEF SessionFlagsAgree, FlagsAgree
      <4> QED
        BY <2>4, <4>1, <4>2 DEF Receives, NalAt, IsSps
    <3>3. \A k \in next .. Count(held) : k # next => k \in next' .. Count(held)
      BY <1>3, <2>1
    <3>4. Awaits(i) => IdrComing(asked[i])'
      BY <1>2, <2>1, <3>2, <3>3 DEF IdrComing
    <3> QED
      BY <2>1, <3>1, <3>4 DEF Awaits
  <2> QED
    BY <2>3, <2>4
<1>8. CASE ReleaseStream
  <2>1. /\ client' = client /\ idr' = idr /\ asked' = asked /\ ready' = ready
        /\ next > Count(held)
    BY <1>8 DEF ReleaseStream, EndFrame, server
  <2>2. \A k \in next .. Count(held) : FALSE
    BY <1>3, <2>1
  <2> QED
    BY <1>2, <2>1, <2>2 DEF IdrComing, Awaits
<1> QED
  BY <1>4, <1>5, <1>6, <1>7, <1>8 DEF VencStep

LEMMA IdrNext == ~MapFails /\ IdrInv /\ [StreamNext]_streamVars => IdrInv'
<1> SUFFICES ASSUME ~MapFails, IdrInv, [StreamNext]_streamVars PROVE IdrInv'
  OBVIOUS
<1>1. FlagsInv' /\ EncoderOK'
  BY StepsRefine, FlagsNext, EncoderNext DEF IdrInv
<1>2. ASSUME NEW i \in Slot
      PROVE  /\ asked'[i] # NotAsked => asked'[i] = client'[i].stream_id
             /\ Awaits(i)' => IdrComing(asked[i])'
  <2>0. asked[i] # NotAsked => asked[i] = client[i].stream_id
    BY DEF IdrInv
  <2>1. CASE ServerStep
    BY <2>1, ServerIdr
  <2>2. CASE VencStep
    BY <2>0, <2>2, VencIdr
  <2>3. ASSUME NEW f \in Frames, Encode(f)
        PROVE  /\ asked'[i] # NotAsked => asked'[i] = client'[i].stream_id
               /\ Awaits(i)' => IdrComing(asked[i])'
    BY <2>0, <2>3, EncodeIdr
  <2>4. CASE UNCHANGED streamVars
    <3>1. /\ client' = client /\ asked' = asked /\ idr' = idr /\ ready' = ready
          /\ held' = held /\ next' = next
      BY <2>4 DEF streamVars, vars, server, encoder
    <3>2. Awaits(i) => IdrComing(asked[i])
      BY DEF IdrInv, IdrServed
    <3> QED
      BY <2>0, <3>1, <3>2 DEF Awaits, IdrComing
  <2> QED
    BY <2>1, <2>2, <2>3, <2>4 DEF StreamNext
<1> QED
  BY <1>1, <1>2 DEF IdrInv, IdrServed

(***************************************************************************)
(* Unless a NAL cannot be mapped, a peer that waits for an SPS has one     *)
(* coming: with the encoder, in the driver's queue or in the frame being   *)
(* pushed (request_idr, venc_get_stream, rtsp_server_push_nal).            *)
(***************************************************************************)
THEOREM IdrCorrect ==
    ASSUME ~MapFails PROVE StreamSpec => []IdrServed
<1>1. StreamInit => IdrInv
  <2> SUFFICES ASSUME StreamInit PROVE IdrInv
    OBVIOUS
  <2>1. FlagsInv
    BY InitType, NewClientFlags DEF StreamInit, Init, FlagsInv, SessionFlagsAgree, Serving
  <2> QED
    BY <2>1, InitEncoder DEF StreamInit, IdrInv, IdrServed, Awaits
<1>2. IdrInv /\ [StreamNext]_streamVars => IdrInv'
  BY IdrNext
<1>3. IdrInv => IdrServed
  BY DEF IdrInv
<1> QED
  BY <1>1, <1>2, <1>3, PTL DEF StreamSpec

-----------------------------------------------------------------------------
(***************************************************************************)
(* Frames reach a peer whole.  What H.264 says of the encoder's output:    *)
(* the parameter sets come before the slices they are for, so the first    *)
(* NAL sent of a frame with an SPS is an SPS; and a frame's last NAL is    *)
(* one that is sent, never an SEI or an empty entry.                       *)
(***************************************************************************)
LeadsIn(f, k) == k \in Sendable(f) /\ \A n \in Sendable(f) : k <= n

ParameterSetsFirst ==
    \A f \in Frames : \A n \in Sendable(f) : f.units[n].kind = "SPS" =>
       \E k \in Sendable(f) : LeadsIn(f, k) /\ f.units[k].kind = "SPS"

LastIsSent == \A f \in Frames : Sendable(f) # {} => Count(f) \in Sendable(f)

(* The sendable entries of the frame that the loop has come past.          *)
Passed == {k \in Sendable(held) : k < next}

(* The peer in slot i plays the video of the frame's stream.               *)
Tuned(i) == /\ client[i].tcp_fd # NoFd /\ client[i].playing
            /\ client[i].stream_id = held.stream /\ client[i].tracks["video"].active

Sps(k) == held.units[k].kind = "SPS"
Begun(i) == got[i][1].unit
Marked(e) == \A k \in DOMAIN e.marker :
                e.marker[k] = (e.unit = Count(held) /\ k = Len(e.marker))

(* A tuned peer that got nothing waits for an SPS, and none has passed.    *)
LeftOut(i) == Tuned(i) => \A k \in Passed : client[i].waiting_for_sps /\ ~Sps(k)

(* A peer that got something got all that has passed since, in order, and  *)
(* was let in by the first entry or, if it waited, by the first SPS.       *)
LetIn(i) ==
    /\ Tuned(i) /\ ~client[i].waiting_for_sps
    /\ {got[i][n].unit : n \in DOMAIN got[i]} = {k \in Passed : Begun(i) <= k}
    /\ \A m, n \in DOMAIN got[i] : m < n => got[i][m].unit < got[i][n].unit
    /\ \A n \in DOMAIN got[i] : Marked(got[i][n])
    /\ \A k \in Passed : k < Begun(i) => ~Sps(k) /\ Sps(Begun(i))

Entry == [unit : Nat \ {0}, marker : Seq(BOOLEAN)]

FrameInv ==
    /\ TypeOK /\ EncoderOK
    /\ got \in [Slot -> Seq(Entry)]
    /\ held # NoFrame =>
          pc = "frame" /\ \A i \in Slot : IF got[i] = <<>> THEN LeftOut(i) ELSE LetIn(i)

(* The kinds and the last entry of the NAL that the loop pushes.           *)
LEMMA PushedUnit ==
    ASSUME EncoderOK, PushUnit
    PROVE  /\ held \in Frames /\ Count(held) \in Nat /\ next \in 1 .. Count(held)
           /\ NalAt(held, next) \in Nal
           /\ NalAt(held, next).stream = held.stream
           /\ NalAt(held, next).kind = held.units[next].kind
           /\ NalAt(held, next).last = (next = Count(held))
           /\ next \in Sendable(held) <=> held.units[next].kind # "SEI"
<1>1. held \in Frames /\ held \in Frame
  BY StreamAssumption DEF EncoderOK, PushUnit, Pushing
<1>2. Count(held) \in Nat
  BY <1>1, StreamAssumption DEF Count, Frame
<1>3. NalAt(held, next) \in Nal
  BY PushedNal, ConstantsAssumption
<1>4. next \in 1 .. Count(held) /\ ~Empty(held.units[next])
  BY <1>2 DEF PushUnit, EncoderOK
<1> QED
  BY <1>1, <1>2, <1>3, <1>4 DEF NalAt, Sendable

(* What one pushed NAL adds to what a peer got of the frame.               *)
LEMMA PushedEntry ==
    ASSUME TypeOK, EncoderOK, got \in [Slot -> Seq(Entry)], PushUnit, NEW i \in Slot
    PROVE  LET nal == NalAt(held, next) IN
           IF Receives(client[i], nal)
           THEN \E e \in Entry :
                  /\ got'[i] = Append(got[i], e)
                  /\ e.unit = next /\ Marked(e)
                  /\ client'[i].tcp_fd = client[i].tcp_fd
                  /\ client'[i].playing = client[i].playing
                  /\ client'[i].stream_id = client[i].stream_id
                  /\ client'[i].tracks["video"].active = client[i].tracks["video"].active
                  /\ ~client'[i].waiting_for_sps
           ELSE got'[i] = got[i] /\ client'[i] = client[i]
<1> DEFINE nal == NalAt(held, next)
           sent == VideoPackets(client[i], nal)
           e == [unit |-> next, marker |-> [k \in DOMAIN sent |-> sent[k].marker]]
<1>1. /\ out'[i] = IF Receives(client[i], nal) THEN sent ELSE <<>>
      /\ client'[i] = IF Receives(client[i], nal)
                      THEN [BumpSeq(client[i], "video", Packets(nal)) EXCEPT
                              !.waiting_for_sps = FALSE]
                      ELSE client[i]
  BY DEF PushUnit, PushNal
<1>2. got'[i] = IF out'[i] = <<>> THEN got[i]
                ELSE Append(got[i], [unit |-> next, marker |-> [k \in DOMAIN out'[i] |->
                                                                  out'[i][k].marker]])
  BY DEF PushUnit
<1>3. CASE ~Receives(client[i], nal)
  BY <1>1, <1>2, <1>3
<1>4. CASE Receives(client[i], nal)
  <2>1. Packets(nal) \in {1, 2} /\ nal.last = (next = Count(held)) /\ next \in Nat \ {0}
    BY PushedUnit DEF Packets, EncoderOK
  <2>2. /\ DOMAIN sent = 1 .. Packets(nal)
        /\ \A k \in 1 .. Packets(nal) :
              sent[k].marker = (nal.last /\ k = Packets(nal))
    BY DEF VideoPackets
  <2>3. sent # <<>>
    BY <2>1, <2>2
  <2>4. got'[i] = Append(got[i], e)
    BY <1>1, <1>2, <1>4, <2>3
  <2> HIDE DEF nal, sent
  <2> DEFINE w == [k \in 1 .. Packets(nal) |-> sent[k].marker]
  <2>5. e = [unit |-> next, marker |-> w]
    BY <2>2
  <2>6. /\ w \in Seq(BOOLEAN) /\ Len(w) = Packets(nal)
        /\ \A k \in 1 .. Packets(nal) : w[k] = (nal.last /\ k = Packets(nal))
    <3>1. \A k \in 1 .. Packets(nal) : w[k] \in BOOLEAN
      BY <2>1, <2>2
    <3>2. w \in [1 .. Packets(nal) -> BOOLEAN]
      BY <3>1
    <3>3. w \in Seq(BOOLEAN) /\ Len(w) = Packets(nal)
      BY <2>1, <3>2
    <3> QED
      BY <2>2, <3>3
  <2>7. e \in Entry /\ e.unit = next /\ Marked(e)
    <3> HIDE DEF w, e
    <3>1. e.marker = w /\ e.unit = next /\ DOMAIN w = 1 .. Packets(nal)
      BY <2>5 DEF w
    <3>2. e \in Entry
      BY <2>1, <2>5, <2>6 DEF Entry
    <3> QED
      BY <2>1, <2>6, <3>1, <3>2 DEF Marked
  <2>8. client[i] \in Client
    BY DEF TypeOK
  <2> DEFINE b == BumpSeq(client[i], "video", Packets(nal))
  <2>9. /\ b.tcp_fd = client[i].tcp_fd /\ b.playing = client[i].playing
        /\ b.stream_id = client[i].stream_id /\ "waiting_for_sps" \in DOMAIN b
        /\ b.tracks["video"].active = client[i].tracks["video"].active
    BY <2>8 DEF BumpSeq, Client, Track, TrackRecord
  <2>10. client'[i] = [b EXCEPT !.waiting_for_sps = FALSE]
    BY <1>1, <1>4 DEF nal
  <2> HIDE DEF b, e
  <2> QED
    BY <1>4, <2>4, <2>7, <2>9, <2>10 DEF nal
<1> QED
  BY <1>3, <1>4

(* While a frame is pushed nothing of the server runs but the clock.       *)
LEMMA FrameHeld ==
    ASSUME ServerStep, pc = "frame"
    PROVE  client' = client /\ pc' = pc
<1>1. CASE Handle
  BY <1>1 DEF Handle, Unauthorized, Options, GetParameter, UnknownMethod, StreamNotFound,
     NoStream, Describe, Setup, SetupNoTransport, SetupTcp, SetupNoPorts, SetupUdp,
     SetupLastPort, SetupBy, BadSession, Play, Teardown, NamesSession, Asks, Pending
<1>2. CASE Accept \/ SkipFreeSlot \/ Hangup \/ Receive \/ FinishClient \/ Close \/ Tick
  BY <1>2 DEF Accept, NoPeer, RefusePeer, AcceptPeer, StartPass, SkipFreeSlot, Hangup,
     Receive, FinishClient, Close, Tick
<1> QED
  BY <1>1, <1>2 DEF ServerStep

LEMMA PushFrame ==
    ASSUME FrameInv, PushUnit, NEW i \in Slot
    PROVE  IF got'[i] = <<>> THEN LeftOut(i)' ELSE LetIn(i)'
<1> DEFINE nal == NalAt(held, next)
<1>1. /\ held' = held /\ next' = next + 1 /\ next \in Nat \ {0} /\ TypeOK /\ EncoderOK
      /\ got[i] \in Seq(Entry)
      /\ IF got[i] = <<>> THEN LeftOut(i) ELSE LetIn(i)
  BY DEF FrameInv, PushUnit, Pushing, EncoderOK
<1>2. /\ Count(held) \in Nat /\ next \in 1 .. Count(held)
      /\ nal.stream = held.stream /\ nal.kind = held.units[next].kind
      /\ next \in Sendable(held) <=> held.units[next].kind # "SEI"
  BY <1>1, PushedUnit
<1>3. Passed' = Passed \cup (IF nal.kind = "SEI" THEN {} ELSE {next})
  BY <1>1, <1>2 DEF Passed, Sendable
<1>4. \A k \in Passed : k \in Nat /\ k < next
  BY <1>1, <1>2 DEF Passed, Sendable
<1>5. CASE Receives(client[i], nal)
  <2>1. PICK e \in Entry :
          /\ got'[i] = Append(got[i], e)
          /\ e.unit = next /\ Marked(e)
          /\ client'[i].tcp_fd = client[i].tcp_fd
          /\ client'[i].playing = client[i].playing
          /\ client'[i].stream_id = client[i].stream_id
          /\ client'[i].tracks["video"].active = client[i].tracks["video"].active
          /\ ~client'[i].waiting_for_sps
    BY <1>1, <1>5, PushedEntry DEF FrameInv
  <2>2. nal.kind # "SEI" /\ Tuned(i) /\ (client[i].waiting_for_sps => nal.kind = "SPS")
    BY <1>2, <1>5 DEF Receives, Tuned
  <2>3. Tuned(i)' /\ ~client'[i].waiting_for_sps
    BY <1>1, <2>1, <2>2 DEF Tuned
  <2>4. Marked(e)'
    BY <1>1, <2>1 DEF Marked
  <2>5. Passed' = Passed \cup {next}
    BY <1>3, <2>2
  <2>6. /\ DOMAIN got'[i] = DOMAIN got[i] \cup {Len(got[i]) + 1}
        /\ got'[i][Len(got[i]) + 1] = e /\ got'[i] # <<>> /\ Len(got[i]) \in Nat
        /\ DOMAIN got[i] = 1 .. Len(got[i])
        /\ \A n \in DOMAIN got[i] : got'[i][n] = got[i][n] /\ got[i][n].unit \in Nat
    <3>1. \A n \in DOMAIN got[i] : got[i][n] \in Entry
      BY <1>1
    <3>2. \A n \in DOMAIN got[i] : got[i][n].unit \in Nat
      BY <3>1 DEF Entry
    <3>3. /\ Len(got[i]) \in Nat /\ DOMAIN got[i] = 1 .. Len(got[i])
          /\ Len(got'[i]) = Len(got[i]) + 1 /\ DOMAIN got'[i] = 1 .. Len(got'[i])
          /\ got'[i][Len(got[i]) + 1] = e
      BY <1>1, <2>1
    <3>4. \A n \in DOMAIN got[i] : got'[i][n] = got[i][n]
      BY <1>1, <2>1
    <3>5. DOMAIN got'[i] = DOMAIN got[i] \cup {Len(got[i]) + 1} /\ got'[i] # <<>>
      BY <3>3
    <3> QED
      BY <3>2, <3>3, <3>4, <3>5
  <2>7. CASE got[i] = <<>>
    <3>1. LeftOut(i)
      BY <1>1, <2>7
    <3>2. DOMAIN got'[i] = {1} /\ got'[i][1] = e
      BY <2>6, <2>7
    <3>3. \A k \in Passed : ~Sps(k) /\ Sps(next)
      BY <1>2, <2>2, <3>1 DEF LeftOut, Sps
    <3>4. {got'[i][n].unit : n \in DOMAIN got'[i]} = {k \in Passed' : Begun(i)' <= k}
      BY <1>1, <1>4, <2>1, <2>5, <3>2 DEF Begun
    <3>5. (\A k \in Passed : k < Begun(i) => ~Sps(k) /\ Sps(Begun(i)))'
      BY <1>1, <1>4, <2>1, <2>5, <3>2, <3>3 DEF Begun, Sps
    <3> QED
      BY <2>3, <2>4, <2>6, <3>2, <3>4, <3>5 DEF LetIn
  <2>8. CASE got[i] # <<>>
    <3>1. LetIn(i)
      BY <1>1, <2>8
    <3>2. 1 \in DOMAIN got[i] /\ Begun(i)' = Begun(i) /\ Begun(i) \in Nat
      BY <2>6, <2>8 DEF Begun
    <3>3. \A n \in DOMAIN got[i] : got[i][n].unit \in Passed
      BY <3>1 DEF LetIn
    <3>4. Begun(i) <= next
      BY <1>1, <1>4, <3>2, <3>3 DEF Begun
    <3>5. {got'[i][n].unit : n \in DOMAIN got'[i]}
            = {got[i][n].unit : n \in DOMAIN got[i]} \cup {next}
      BY <2>1, <2>6
    <3>6. {got'[i][n].unit : n \in DOMAIN got'[i]} = {k \in Passed' : Begun(i)' <= k}
      BY <2>5, <3>1, <3>2, <3>4, <3>5 DEF LetIn
    <3>7. \A m, n \in DOMAIN got'[i] : m < n => got'[i][m].unit < got'[i][n].unit
      <4> SUFFICES ASSUME NEW m \in DOMAIN got'[i], NEW n \in DOMAIN got'[i], m < n
                   PROVE  got'[i][m].unit < got'[i][n].unit
        OBVIOUS
      <4>1. m \in DOMAIN got[i]
        BY <2>6
      <4>2. CASE n \in DOMAIN got[i]
        BY <2>6, <3>1, <4>1, <4>2 DEF LetIn
      <4>3. CASE n = Len(got[i]) + 1
        BY <1>4, <2>1, <2>6, <3>3, <4>1, <4>3
      <4> QED
        BY <2>6, <4>2, <4>3
    <3>8. (\A n \in DOMAIN got[i] : Marked(got[i][n]))'
      <4>1. \A n \in DOMAIN got[i] : Marked(got[i][n])
        BY <3>1 DEF LetIn
      <4>2. \A n \in DOMAIN got'[i] : Marked(got'[i][n])
        BY <2>1, <2>6, <4>1
      <4> QED
        BY <1>1, <4>2 DEF Marked
    <3>9. (\A k \in Passed : k < Begun(i) => ~Sps(k) /\ Sps(Begun(i)))'
      BY <1>1, <2>5, <3>1, <3>2, <3>4 DEF LetIn, Sps
    <3> QED
      BY <2>3, <2>6, <3>6, <3>7, <3>8, <3>9 DEF LetIn
  <2> QED
    BY <2>6, <2>7, <2>8
<1>6. CASE ~Receives(client[i], nal)
  <2>1. got'[i] = got[i] /\ client'[i] = client[i]
    BY <1>1, <1>6, PushedEntry DEF FrameInv
  <2>2. Tuned(i)' = Tuned(i) /\ \A k : Sps(k)' = Sps(k)
    BY <1>1, <2>1 DEF Tuned, Sps
  <2>3. CASE got[i] = <<>>
    <3>1. Tuned(i) /\ nal.kind # "SEI" => client[i].waiting_for_sps /\ ~Sps(next)
      BY <1>2, <1>6 DEF Tuned, Receives, Sps
    <3> QED
      BY <1>1, <1>3, <2>1, <2>2, <2>3, <3>1 DEF LeftOut
  <2>4. CASE got[i] # <<>>
    <3>1. LetIn(i)
      BY <1>1, <2>4
    <3>2. Passed' = Passed
      BY <1>2, <1>3, <1>6, <3>1 DEF LetIn, Tuned, Receives
    <3>3. Begun(i)' = Begun(i) /\ \A n \in DOMAIN got[i] : Marked(got[i][n])'
      BY <1>1, <2>1, <3>1 DEF Begun, LetIn, Marked
    <3> QED
      BY <2>1, <2>2, <2>4, <3>1, <3>2, <3>3 DEF LetIn
  <2> QED
    BY <2>1, <2>3, <2>4
<1> QED
  BY <1>5, <1>6

(* What a peer got of the frame is as it was.                              *)
LEMMA SameFrame ==
    ASSUME NEW i \in Slot, held' = held, got'[i] = got[i], client' = client,
           Passed' = Passed,
           IF got[i] = <<>> THEN LeftOut(i) ELSE LetIn(i)
    PROVE  IF got'[i] = <<>> THEN LeftOut(i)' ELSE LetIn(i)'
<1>1. Tuned(i)' = Tuned(i) /\ (\A k : Sps(k)' = Sps(k)) /\ Begun(i)' = Begun(i)
  BY DEF Tuned, Sps, Begun
<1>2. CASE got[i] = <<>>
  BY <1>1, <1>2 DEF LeftOut
<1>3. CASE got[i] # <<>>
  <2>1. LetIn(i)
    BY <1>3
  <2>2. (\A n \in DOMAIN got[i] : Marked(got[i][n]))'
    BY <2>1 DEF LetIn, Marked
  <2> QED
    BY <1>1, <1>3, <2>1, <2>2 DEF LetIn
<1> QED
  BY <1>2, <1>3

LEMMA GotType ==
    ASSUME FrameInv, [StreamNext]_streamVars
    PROVE  got' \in [Slot -> Seq(Entry)]
<1>1. Nothing \in [Slot -> Seq(Entry)]
  BY DEF Nothing
<1>2. CASE PushUnit
  <2>1. /\ got' = [i \in Slot |-> got'[i]]
        /\ \A i \in Slot : got'[i] \in Seq(Entry)
    <3>1. \A i \in Slot : got[i] \in Seq(Entry)
      BY DEF FrameInv
    <3>2. ASSUME NEW i \in Slot PROVE got'[i] \in Seq(Entry)
      <4>1. got'[i] = got[i] \/ \E e \in Entry : got'[i] = Append(got[i], e)
        BY <1>2, PushedEntry DEF FrameInv
      <4>2. \A s \in Seq(Entry) : \A e \in Entry : Append(s, e) \in Seq(Entry)
        OBVIOUS
      <4> QED
        BY <3>1, <4>1, <4>2
    <3> QED
      BY <1>2, <3>2 DEF PushUnit
  <2> QED
    BY <2>1
<1>3. CASE GetStream \/ ReleaseStream
  BY <1>1, <1>3 DEF GetStream, ReleaseStream
<1>4. CASE ~PushUnit /\ ~GetStream /\ ~ReleaseStream
  <2>1. got' = got
    BY <1>4 DEF StreamNext, ServerStep, VencStep, NothingReady, SkipUnit, Encode, streamVars
  <2> QED
    BY <2>1 DEF FrameInv
<1> QED
  BY <1>2, <1>3, <1>4

LEMMA FrameNext ==
    ASSUME ~MapFails, FrameInv, [StreamNext]_streamVars
    PROVE  FrameInv'
<1> DEFINE P(i) == IF got[i] = <<>> THEN LeftOut(i) ELSE LetIn(i)
<1>1. TypeOK /\ EncoderOK /\ (held # NoFrame => pc = "frame" /\ \A i \in Slot : P(i))
      /\ got \in [Slot -> Seq(Entry)]
  BY DEF FrameInv
<1>2. TypeOK' /\ EncoderOK' /\ got' \in [Slot -> Seq(Entry)]
  BY <1>1, StepsRefine, NextType, EncoderNext, GotType
<1>3. SUFFICES ASSUME held' # NoFrame
               PROVE  pc' = "frame" /\ \A i \in Slot : P(i)'
  BY <1>2 DEF FrameInv
<1>4. ASSUME held' = held, got' = got, client' = client, pc' = pc, Passed' = Passed
      PROVE  pc' = "frame" /\ \A i \in Slot : P(i)'
  BY <1>1, <1>3, <1>4, SameFrame
<1>5. CASE ServerStep
  <2>1. held' = held /\ got' = got /\ next' = next
    BY <1>5 DEF ServerStep, encoder
  <2>2. client' = client /\ pc' = pc
    BY <1>1, <1>3, <1>5, <2>1, FrameHeld
  <2> QED
    BY <1>4, <2>1, <2>2 DEF Passed
<1>6. ASSUME NEW f \in Frames, Encode(f)
      PROVE  pc' = "frame" /\ \A i \in Slot : P(i)'
  <2>1. held' = held /\ got' = got /\ next' = next /\ client' = client /\ pc' = pc
    BY <1>6 DEF Encode, TakeIdr, vars, loop
  <2> QED
    BY <1>4, <2>1 DEF Passed
<1>7. CASE UNCHANGED streamVars
  BY <1>4, <1>7 DEF streamVars, vars, loop, encoder, Passed
<1>8. CASE NothingReady \/ ReleaseStream
  BY <1>3, <1>8 DEF NothingReady, ReleaseStream, encoder
<1>9. CASE GetStream
  <2>1. pc' = "frame" /\ next' = 1 /\ got' = Nothing
    BY <1>9 DEF GetStream, vars, loop
  <2>2. Passed' = {}
    BY <2>1 DEF Passed, Sendable
  <2> QED
    BY <2>1, <2>2 DEF Nothing, LeftOut
<1>10. CASE SkipUnit
  <2>1. /\ held' = held /\ got' = got /\ client' = client /\ pc' = pc /\ next' = next + 1
        /\ next \in Nat /\ Empty(held.units[next])
    BY <1>1, <1>10 DEF SkipUnit, vars, loop, EncoderOK
  <2>2. next \notin Sendable(held) /\ Sendable(held) \subseteq Int
    BY <2>1 DEF Sendable
  <2>3. Passed' = Passed
    BY <2>1, <2>2 DEF Passed
  <2> QED
    BY <1>4, <2>1, <2>3
<1>11. CASE PushUnit
  BY <1>11, PushFrame DEF PushUnit, Pushing, PushNal, loop
<1> QED
  BY <1>5, <1>6, <1>7, <1>8, <1>9, <1>10, <1>11 DEF StreamNext, VencStep

(* A frame's entries, once all have been passed.                           *)
LEMMA AtEnd ==
    ASSUME FrameInv, AtRelease, NEW i \in Slot, got[i] # <<>>
    PROVE  /\ LetIn(i) /\ held \in Frames /\ Passed = Sendable(held)
           /\ 1 \in DOMAIN got[i] /\ Begun(i) \in Passed /\ Passed \subseteq Nat
           /\ DOMAIN got[i] = 1 .. Len(got[i]) /\ Len(got[i]) \in Nat
           /\ Count(held) \in Nat
<1>1. LetIn(i) /\ held \in Frames /\ next \in Nat /\ next > Count(held)
      /\ got[i] \in Seq(Entry)
  BY DEF FrameInv, EncoderOK, AtRelease, Pushing
<1>2. Count(held) \in Nat
  BY <1>1, StreamAssumption DEF Count, Frame
<1>3. Passed = Sendable(held) /\ Passed \subseteq Nat
  BY <1>1, <1>2 DEF Passed, Sendable
<1>4. 1 \in DOMAIN got[i] /\ DOMAIN got[i] = 1 .. Len(got[i]) /\ Len(got[i]) \in Nat
  BY <1>1
<1>5. got[i][1].unit \in {got[i][n].unit : n \in DOMAIN got[i]}
  BY <1>4
<1> QED
  BY <1>1, <1>2, <1>3, <1>4, <1>5 DEF LetIn, Begun

LEMMA FrameInvCorrect ==
    ASSUME ~MapFails PROVE StreamSpec => []FrameInv
<1>1. StreamInit => FrameInv
  BY InitType, InitEncoder DEF StreamInit, FrameInv, Nothing
<1>2. FrameInv /\ [StreamNext]_streamVars => FrameInv'
  BY FrameNext
<1> QED
  BY <1>1, <1>2, PTL DEF StreamSpec

(***************************************************************************)
(* No peer gets part of a frame: whoever comes, plays or leaves while      *)
(* frames are pushed, of each frame it gets every NAL, in order, or none   *)
(* (venc_get_stream, rtsp_server_push_nal).                                *)
(***************************************************************************)
THEOREM FramesAlwaysWhole ==
    ASSUME ~MapFails, ParameterSetsFirst PROVE StreamSpec => []FramesWhole
<1>1. FrameInv => FramesWhole
  <2> SUFFICES ASSUME FrameInv, AtRelease, NEW i \in Slot, got[i] # <<>>
               PROVE  /\ {got[i][n].unit : n \in DOMAIN got[i]} = Sendable(held)
                      /\ \A m, n \in DOMAIN got[i] : m < n => got[i][m].unit < got[i][n].unit
    BY DEF FramesWhole
  <2>1. /\ LetIn(i) /\ held \in Frames /\ Passed = Sendable(held)
        /\ Begun(i) \in Passed /\ Passed \subseteq Nat
    BY AtEnd
  <2>2. \A k \in Passed : Begun(i) <= k
    <3> SUFFICES ASSUME NEW k \in Passed, k < Begun(i) PROVE FALSE
      BY <2>1
    <3>1. ~Sps(k) /\ Sps(Begun(i))
      BY <2>1 DEF LetIn
    <3>2. PICK s \in Sendable(held) : LeadsIn(held, s) /\ held.units[s].kind = "SPS"
      BY <2>1, <3>1 DEF ParameterSetsFirst, Sps
    <3>3. s < Begun(i) /\ Sps(s)
      BY <2>1, <3>2 DEF LeadsIn, Sps
    <3> QED
      BY <2>1, <3>3 DEF LetIn
  <2> QED
    BY <2>1, <2>2 DEF LetIn
<1> QED
  BY <1>1, FrameInvCorrect, PTL

(***************************************************************************)
(* The marker ends a frame: a peer sees it on the last packet it gets of   *)
(* the frame and on no other, from whatever NAL on it was let in           *)
(* (rtsp_server_push_nal's end_of_frame, send_video_nal).                  *)
(***************************************************************************)
THEOREM MarkerAlwaysLast ==
    ASSUME ~MapFails, LastIsSent PROVE StreamSpec => []MarkerEndsFrame
<1>1. FrameInv => MarkerEndsFrame
  <2> SUFFICES ASSUME FrameInv, AtRelease, NEW i \in Slot, NEW n \in DOMAIN got[i],
                      NEW k \in DOMAIN got[i][n].marker
               PROVE  got[i][n].marker[k]
                         = (n = Len(got[i]) /\ k = Len(got[i][n].marker))
    BY DEF MarkerEndsFrame
  <2> DEFINE e(m) == got[i][m]
             last == Len(got[i])
  <2>0. got[i] # <<>>
    OBVIOUS
  <2>1. /\ LetIn(i) /\ held \in Frames /\ Passed = Sendable(held) /\ Begun(i) \in Passed
        /\ Passed \subseteq Nat /\ Count(held) \in Nat
        /\ DOMAIN got[i] = 1 .. last /\ last \in Nat /\ 1 \in DOMAIN got[i]
    BY <2>0, AtEnd
  <2>2. e(n).marker[k] = (e(n).unit = Count(held) /\ k = Len(e(n).marker))
    BY <2>1 DEF LetIn, Marked
  <2>3. Count(held) \in Sendable(held) /\ Begun(i) <= Count(held)
    BY <2>1 DEF LastIsSent, Sendable
  <2>4. PICK m \in DOMAIN got[i] : e(m).unit = Count(held)
    BY <2>1, <2>3 DEF LetIn
  <2>5. \A j \in DOMAIN got[i] : e(j).unit \in Nat /\ e(j).unit <= Count(held)
    <3> SUFFICES ASSUME NEW j \in DOMAIN got[i]
                 PROVE  e(j).unit \in Nat /\ e(j).unit <= Count(held)
      OBVIOUS
    <3>1. e(j).unit \in Passed
      BY <2>1 DEF LetIn
    <3> QED
      BY <2>1, <3>1 DEF Sendable
  <2>6. m = last
    BY <2>1, <2>4, <2>5 DEF LetIn
  <2>7. e(n).unit = Count(held) <=> n = last
    BY <2>1, <2>4, <2>5, <2>6 DEF LetIn
  <2> QED
    BY <2>2, <2>7
<1> QED
  BY <1>1, FrameInvCorrect, PTL
=============================================================================
