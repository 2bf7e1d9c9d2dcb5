----------------------------- MODULE RtspServer -----------------------------
(***************************************************************************)
(* The RTSP/RTP server of src/majestic/rtsp_server.c, driven by the loop   *)
(* of src/majestic/mini_streamer.c: poll the sockets, then push what the   *)
(* encoder produced.  The program has one thread, so a handler is one      *)
(* atomic step; what interleaves with it is the outside: peers that        *)
(* connect, send requests in any grouping and hang up, the clock, the      *)
(* encoder, and the kernel, which may refuse a pair of UDP ports.          *)
(***************************************************************************)
EXTENDS Integers, Sequences, FiniteSets

CONSTANTS
    MaxClients,        \* RTSP_MAX_CLIENTS
    SeqModulus,        \* values of the 16-bit RTP sequence counter
    RxCapacity,        \* requests that fill the 4 KiB receive buffer
    MetadataInterval,  \* METADATA_INTERVAL_US
    MaxBatch,          \* bound: requests one recv() delivers
    MaxCSeq,           \* bound: requests one connection sends
    MaxClock,          \* bound: clock values
    AuthEnabled,       \* credentials or a shadow file are configured
    EnabledStreams,    \* streams given to rtsp_server_enable_stream
    Fds,               \* descriptors the process can have open
    SessionIds,        \* values random() may give a session
    Requests,          \* requests a peer may send
    Nals               \* NAL units the encoder may deliver

Slot == 0 .. MaxClients - 1
Stream == 0 .. 1                        \* RTSP_STREAM_COUNT
Track == {"video", "metadata"}
NoFd == -1
NoSession == 0

(***************************************************************************)
(* A request as the handlers read it: stream (stream_of, up to             *)
(* STREAM_SLOTS) and track of the URI, transport ("none": the parameter it *)
(* needs is missing), whether its credentials are right, and the Session   *)
(* header.  "NUL" is input with a zero byte, such as a binary RTCP packet  *)
(* on an interleaved connection: strstr() sees nothing from there on.      *)
(***************************************************************************)
Request == [method : {"OPTIONS", "DESCRIBE", "SETUP", "PLAY", "GET_PARAMETER",
                      "TEARDOWN", "UNKNOWN", "NUL"},
            stream : 0 .. 2, track : Track, transport : {"tcp", "udp", "none"},
            cred : BOOLEAN, session : SessionIds \cup {NoSession}]

(***************************************************************************)
(* A NAL unit: "small" fits the 128-byte parameter set cache, "medium" one *)
(* RTP packet; "large" stands for the sizes FU-A splits in two.            *)
(***************************************************************************)
Nal == [stream : Stream, kind : {"SPS", "PPS", "SEI", "slice"},
        size : {"small", "medium", "large"}, last : BOOLEAN]

ASSUME ConstantsAssumption ==
    /\ MaxClients \in Nat \ {0} /\ SeqModulus \in Nat \ {0}
    /\ RxCapacity \in Nat \ {0} /\ MetadataInterval \in Nat \ {0}
    /\ MaxBatch \in Nat /\ MaxCSeq \in Nat /\ MaxClock \in Nat
    /\ AuthEnabled \in BOOLEAN /\ EnabledStreams \subseteq Stream
    /\ Fds \subseteq Nat /\ SessionIds \subseteq Nat \ {0}
    /\ Requests \subseteq Request /\ Nals \subseteq Nal

VARIABLES
    client,   \* [Slot -> rtsp_client_t]
    cached,   \* [Stream -> the parameter sets held for DESCRIBE]
    idr,      \* streams whose encoder was asked for an IDR and has not begun it
    open,     \* descriptors the process has open
    clock,    \* now_us()
    now,      \* the time rtsp_server_poll read when its pass began
    pc, cur,  \* where the loop is, and the slot it serves
    out       \* [Slot -> what the last step sent to that peer]

server == <<cached, idr>>
loop == <<clock, now, pc, cur>>
vars == <<client, server, open, loop, out>>

TrackRecord == [active : BOOLEAN, interleaved : BOOLEAN, rtp_fd : Fds \cup {NoFd},
                rtcp_fd : Fds \cup {NoFd}, seq : 0 .. SeqModulus - 1]
Item == [req : Request, cseq : Nat]

(* session is has_session and session_id; rxbuf the requests in the        *)
(* buffer, numbered; cseq the number of the last one the peer sent.        *)
Client == [tcp_fd : Fds \cup {NoFd}, loopback : BOOLEAN, stream_id : Stream,
           session : SessionIds \cup {NoSession}, playing : BOOLEAN,
           waiting_for_sps : BOOLEAN, next_metadata : Nat,
           tracks : [Track -> TrackRecord], rxbuf : Seq(Item), cseq : Nat]

Reply == [kind : {"reply"}, req : Request, cseq : Nat,
          status : {200, 400, 401, 404, 405, 454, 500},
          session : SessionIds \cup {NoSession}]
Packet == [kind : {"rtp"}, track : Track, stream : Stream,
           nal : {"SPS", "PPS", "slice", "xml"}, seq : 0 .. SeqModulus - 1,
           marker : BOOLEAN]
Bye == [kind : {"bye"}, track : Track]
Message == Reply \cup Packet \cup Bye

-----------------------------------------------------------------------------
(* track_close, session_reset, client_init, client_reset. *)

Lowest(S) == {fd \in S : \A g \in S : fd <= g}  \* what the kernel hands out

ClosedTrack == [active |-> FALSE, interleaved |-> FALSE,
                rtp_fd |-> NoFd, rtcp_fd |-> NoFd, seq |-> 0]
AllClosed == [t \in Track |-> ClosedTrack]

TrackFds(t) == {t.rtp_fd, t.rtcp_fd} \ {NoFd}
AllTrackFds(c) == TrackFds(c.tracks["video"]) \cup TrackFds(c.tracks["metadata"])
HeldBy(c) == AllTrackFds(c) \cup ({c.tcp_fd} \ {NoFd})

(* Variant: playing survives the session. *)
SessionReset_KeepsPlaying(c) == [c EXCEPT !.tracks = AllClosed, !.session = NoSession]
SessionReset(c) == [c EXCEPT !.tracks = AllClosed, !.session = NoSession,
                             !.playing = FALSE, !.waiting_for_sps = FALSE]

NewClient == [tcp_fd |-> NoFd, loopback |-> FALSE, stream_id |-> 0, session |-> NoSession,
              playing |-> FALSE, waiting_for_sps |-> FALSE, next_metadata |-> 0,
              tracks |-> AllClosed, rxbuf |-> <<>>, cseq |-> 0]

(* Variant: the next peer of the slot inherits the session. *)
ClientReset_TcpOnly(c) == [c EXCEPT !.tcp_fd = NoFd]
ClientReset(c) == NewClient

-----------------------------------------------------------------------------
(* Steps on the client of slot cur. *)

Me == client[cur]
Silence == [i \in Slot |-> <<>>]
SendMe(msgs) == out' = [i \in Slot |-> IF i = cur THEN msgs ELSE <<>>]
BecomeMe(c) == client' = [client EXCEPT ![cur] = c]

Init ==
    /\ client = [i \in Slot |-> NewClient]
    /\ cached = [s \in Stream |-> {}] /\ idr = {}
    /\ open = {}
    /\ clock = 0 /\ now = 0
    /\ pc = "poll" /\ cur = 0
    /\ out = Silence

-----------------------------------------------------------------------------
(* rtsp_server_poll: accept one peer, read the clock, then serve each slot. *)

StartPass ==
    /\ pc = "poll" /\ pc' = "recv" /\ cur' = 0
    /\ now' = clock
    /\ out' = Silence
    /\ UNCHANGED <<server, clock>>

NoPeer == StartPass /\ UNCHANGED <<client, open>>

AcceptPeer(i, fd) ==
    /\ client[i].tcp_fd = NoFd
    /\ \A j \in Slot : j < i => client[j].tcp_fd # NoFd
    /\ fd \in Lowest(Fds \ open)
    /\ \E local \in BOOLEAN :
          client' = [client EXCEPT
                       ![i] = [ClientReset(@) EXCEPT !.tcp_fd = fd, !.loopback = local]]
    /\ open' = (open \ HeldBy(client[i])) \cup {fd}
    /\ StartPass

(* Every slot is taken: the new connection is closed at once. *)
RefusePeer ==
    /\ \A i \in Slot : client[i].tcp_fd # NoFd
    /\ Fds \ open # {}
    /\ StartPass
    /\ UNCHANGED <<client, open>>

NextSlot ==
    IF cur = MaxClients - 1 THEN pc' = "frame" /\ cur' = 0
                            ELSE pc' = "recv" /\ cur' = cur + 1

SkipFreeSlot ==
    /\ pc = "recv" /\ Me.tcp_fd = NoFd
    /\ NextSlot
    /\ out' = Silence
    /\ UNCHANGED <<client, server, open, clock, now>>

(* recv() returned 0 or an error. *)
Hangup ==
    /\ pc = "recv" /\ Me.tcp_fd # NoFd
    /\ open' = open \ HeldBy(Me)
    /\ BecomeMe(ClientReset(Me))
    /\ NextSlot
    /\ out' = Silence
    /\ UNCHANGED <<server, clock, now>>

Numbered(batch, n) == [k \in 1 .. n |-> [req |-> batch[k], cseq |-> Me.cseq + k]]

(* recv() returned some requests, or EAGAIN. *)
Receive ==
    /\ pc = "recv" /\ Me.tcp_fd # NoFd /\ Len(Me.rxbuf) < RxCapacity
    /\ \E n \in 0 .. MaxBatch : \E batch \in [1 .. n -> Requests] :
          /\ n + Len(Me.rxbuf) <= RxCapacity
          /\ n + Me.cseq <= MaxCSeq
          /\ BecomeMe([Me EXCEPT !.rxbuf = @ \o Numbered(batch, n), !.cseq = @ + n])
    /\ pc' = "drain"
    /\ out' = Silence
    /\ UNCHANGED <<server, open, clock, now, cur>>

-----------------------------------------------------------------------------
(* drain_requests and handle_request, on the request at the head of rxbuf. *)

Req == Head(Me.rxbuf).req
Pending == pc = "drain" /\ Me.rxbuf # <<>> /\ Req.method # "NUL"

AuthOk(r) == ~AuthEnabled \/ Me.loopback \/ r.cred

Asks(m) == Pending /\ Req.method = m /\ AuthOk(Req)

(* session_ok: 200 when the header names this connection's session. *)
SessionStatus(r) == IF r.session = NoSession THEN 400
                    ELSE IF r.session # Me.session THEN 454 ELSE 200

Answer(status, id) == [kind |-> "reply", req |-> Req, cseq |-> Head(Me.rxbuf).cseq,
                       status |-> status, session |-> id]

(* Variant: the length shrinks, the memmove() is forgotten. *)
Rest_NoMove(buf) == SubSeq(buf, 1, Len(buf) - 1)
Rest(buf) == Tail(buf)  \* the memmove() after a request was handled

(* The handler returned 1, leaving the client as c. *)
Handled(c, msgs) ==
    /\ BecomeMe([c EXCEPT !.rxbuf = Rest(@)])
    /\ SendMe(msgs)
    /\ UNCHANGED <<cached, loop>>

ReplyOnly(status) ==
    Handled(Me, <<Answer(status, NoSession)>>) /\ UNCHANGED <<idr, open>>

Unauthorized == Pending /\ ~AuthOk(Req) /\ ReplyOnly(401)
Options == Asks("OPTIONS") /\ ReplyOnly(200)
GetParameter == Asks("GET_PARAMETER") /\ ReplyOnly(200)
UnknownMethod == Asks("UNKNOWN") /\ ReplyOnly(405)

NoStream == (Asks("DESCRIBE") \/ Asks("SETUP")) /\ Req.stream \notin EnabledStreams

StreamNotFound == NoStream /\ ReplyOnly(404)

(* Variant: a DESCRIBE waits for ever. *)
Described_Never(s) == FALSE
Described(s) == cached[s] = {"SPS", "PPS"}

Describe == Asks("DESCRIBE") /\ ~NoStream /\ Described(Req.stream) /\ ReplyOnly(200)

(* handle_describe returned 0: the request waits for the parameter sets. *)
Deferred == Asks("DESCRIBE") /\ ~NoStream /\ ~Described(Req.stream)

-----------------------------------------------------------------------------
(* handle_setup. *)

SetupBy(transport) == Asks("SETUP") /\ ~NoStream /\ Req.transport = transport

SetupNoTransport == SetupBy("none") /\ ReplyOnly(400)

(* Variant: the session gets a new id each time. *)
IdFor_Any(c) == SessionIds
(* The ids a successful SETUP may answer with. *)
IdFor(c) == IF c.session = NoSession THEN SessionIds ELSE {c.session}

SetupDone(newTrack) ==
    \E id \in IdFor(Me) :
       Handled([Me EXCEPT !.tracks[Req.track] = newTrack, !.stream_id = Req.stream,
                          !.session = id],
               <<Answer(200, id)>>)

(* Replies 500 with the track closed, or inactive with sockets in it. *)
SetupFailed(left) ==
    Handled([Me EXCEPT !.tracks[Req.track] = left], <<Answer(500, NoSession)>>)

(* Variant: the track set up again keeps its old sockets open. *)
AfterTrackClose_Leak(c, t) == open
(* The descriptors left open by track_close(). *)
AfterTrackClose(c, t) == open \ TrackFds(c.tracks[t])

CloseTrack == open' = AfterTrackClose(Me, Req.track) /\ UNCHANGED idr

SetupTcp ==
    /\ SetupBy("tcp")
    /\ CloseTrack
    /\ SetupDone([ClosedTrack EXCEPT !.active = TRUE, !.interleaved = TRUE])

(* track_close(), then two sockets from bind_udp_pair(). *)
UdpPair(rtp, rtcp) ==
    LET kept == AfterTrackClose(Me, Req.track) IN
    /\ rtp \in Lowest(Fds \ kept)
    /\ rtcp \in Lowest(Fds \ (kept \cup {rtp}))
    /\ open' = kept \cup {rtp, rtcp}
    /\ UNCHANGED idr

SetupUdp(rtp, rtcp) ==
    /\ SetupBy("udp")
    /\ UdpPair(rtp, rtcp)
    /\ SetupDone([ClosedTrack EXCEPT !.active = TRUE, !.rtp_fd = rtp, !.rtcp_fd = rtcp])

(* None of the sixteen attempts bound a pair. *)
SetupNoPorts == SetupBy("udp") /\ CloseTrack /\ SetupFailed(ClosedTrack)

(***************************************************************************)
(* The RTP socket got port 65535: adding one wraps to port 0, which binds  *)
(* anywhere, and 0 - 1 is taken for a failure, with both sockets kept.     *)
(***************************************************************************)
SetupLastPort(rtp, rtcp) ==
    /\ SetupBy("udp")
    /\ UdpPair(rtp, rtcp)
    /\ SetupFailed([ClosedTrack EXCEPT !.rtp_fd = rtp, !.rtcp_fd = rtcp])

-----------------------------------------------------------------------------
(* PLAY and TEARDOWN. *)

NamesSession(m) == Asks(m) /\ SessionStatus(Req) = 200

BadSession ==
    /\ Asks("PLAY") \/ Asks("TEARDOWN")
    /\ SessionStatus(Req) # 200
    /\ ReplyOnly(SessionStatus(Req))

(* Variant: video is not held back until the next SPS. *)
Started_AtOnce(c) == [c EXCEPT !.playing = TRUE, !.next_metadata = clock]
Started(c) == [c EXCEPT !.playing = TRUE, !.waiting_for_sps = TRUE,
                        !.next_metadata = clock]

(* Variant: PLAY does not ask the encoder for anything. *)
IdrFor_None(c) == {}
(* Variant: the channel is always the main stream's. *)
IdrFor_Main(c) == {0}
IdrFor(c) == {c.stream_id}

Play ==
    /\ NamesSession("PLAY")
    /\ Handled(Started(Me), <<Answer(200, NoSession)>>)
    /\ idr' = idr \cup IdrFor(Me)
    /\ UNCHANGED open

(* Variant: a BYE for the video track alone. *)
Byes_VideoOnly(c) ==
    IF c.tracks["video"].active THEN <<[kind |-> "bye", track |-> "video"]>> ELSE <<>>
Byes(c) ==
    LET bye(t) == IF c.tracks[t].active THEN <<[kind |-> "bye", track |-> t]>> ELSE <<>>
    IN  bye("video") \o bye("metadata")

Teardown ==
    /\ NamesSession("TEARDOWN")
    /\ open' = open \ AllTrackFds(Me)
    /\ Handled(SessionReset(Me), Append(Byes(Me), Answer(200, NoSession)))
    /\ UNCHANGED idr

-----------------------------------------------------------------------------
(* The rest of the pass over one client, once drain_requests returned. *)

(* Variant: a buffer that fills up is never emptied. *)
AfterOverflow_Keeps(buf) == buf
AfterOverflow(buf) == IF Len(buf) >= RxCapacity THEN <<>> ELSE buf

(* Variant: metadata goes out on every pass. *)
MetadataDue_Always(c) == c.playing /\ c.tracks["metadata"].active
MetadataDue(c) ==
    c.playing /\ c.tracks["metadata"].active /\ now >= c.next_metadata

(* Variant: the counter is wider than 16 bits. *)
BumpSeq_NoWrap(c, t, n) == [c EXCEPT !.tracks[t].seq = @ + n]
BumpSeq(c, t, n) == [c EXCEPT !.tracks[t].seq = (@ + n) % SeqModulus]

FinishClient ==
    LET c == [Me EXCEPT !.rxbuf = AfterOverflow(@)] IN
    /\ pc = "drain" /\ (~Pending \/ Deferred)
    /\ IF MetadataDue(Me)
       THEN /\ SendMe(<<[kind |-> "rtp", track |-> "metadata", stream |-> Me.stream_id,
                         nal |-> "xml", seq |-> Me.tracks["metadata"].seq,
                         marker |-> TRUE]>>)
            /\ BecomeMe([BumpSeq(c, "metadata", 1) EXCEPT
                           !.next_metadata = @ + MetadataInterval])
       ELSE out' = Silence /\ BecomeMe(c)
    /\ NextSlot
    /\ UNCHANGED <<server, open, clock, now>>

-----------------------------------------------------------------------------
(* rtsp_server_push_nal, cache_param_set and send_video_nal. *)

Packets(nal) == IF nal.size = "large" THEN 2 ELSE 1

(* Variant: the NAL goes to the clients of every stream. *)
Receives_AnyStream(c, nal) ==
    /\ c.tcp_fd # NoFd /\ c.playing /\ c.tracks["video"].active
    /\ c.waiting_for_sps => nal.kind = "SPS"
(* Variant: a client that waits is never let in. *)
Receives_NeverWaiting(c, nal) ==
    /\ nal.kind # "SEI"
    /\ c.tcp_fd # NoFd /\ c.playing /\ c.stream_id = nal.stream
    /\ c.tracks["video"].active /\ ~c.waiting_for_sps
(* Variant: the SPS ends the wait but is not sent. *)
Receives_AfterSps(c, nal) ==
    /\ nal.kind # "SEI"
    /\ c.tcp_fd # NoFd /\ c.playing /\ c.stream_id = nal.stream
    /\ c.tracks["video"].active
    /\ c.waiting_for_sps => nal.kind = "PPS"
Receives(c, nal) ==
    /\ nal.kind # "SEI"
    /\ c.tcp_fd # NoFd /\ c.playing /\ c.stream_id = nal.stream
    /\ c.tracks["video"].active
    /\ c.waiting_for_sps => nal.kind = "SPS"

(* Variant: the fragments of one NAL share a sequence number. *)
VideoPackets_OneSeq(c, nal) ==
    [k \in 1 .. Packets(nal) |->
        [kind |-> "rtp", track |-> "video", stream |-> nal.stream, nal |-> nal.kind,
         seq |-> c.tracks["video"].seq, marker |-> nal.last /\ k = Packets(nal)]]
(* Variant: the marker is on every fragment of the last NAL. *)
VideoPackets_Marked(c, nal) ==
    [k \in 1 .. Packets(nal) |->
        [kind |-> "rtp", track |-> "video", stream |-> nal.stream, nal |-> nal.kind,
         seq |-> (c.tracks["video"].seq + k - 1) % SeqModulus, marker |-> nal.last]]
VideoPackets(c, nal) ==
    [k \in 1 .. Packets(nal) |->
        [kind |-> "rtp", track |-> "video", stream |-> nal.stream, nal |-> nal.kind,
         seq |-> (c.tracks["video"].seq + k - 1) % SeqModulus,
         marker |-> nal.last /\ k = Packets(nal)]]

PushNal(nal) ==
    /\ pc = "frame"
    /\ cached' = IF nal.kind \in {"SPS", "PPS"} /\ nal.size = "small"
                 THEN [cached EXCEPT ![nal.stream] = @ \cup {nal.kind}] ELSE cached
    /\ out' = [i \in Slot |-> IF Receives(client[i], nal)
                              THEN VideoPackets(client[i], nal) ELSE <<>>]
    /\ client' = [i \in Slot |->
                    IF Receives(client[i], nal)
                    THEN [BumpSeq(client[i], "video", Packets(nal)) EXCEPT
                            !.waiting_for_sps = FALSE]
                    ELSE client[i]]
    /\ UNCHANGED <<idr, open, loop>>

(* The encoder begins the IDR frame it was asked for. *)
TakeIdr(s) ==
    /\ s \in idr /\ idr' = idr \ {s}
    /\ out' = Silence
    /\ UNCHANGED <<client, cached, open, loop>>

(* The frame, if there was one, is done: the loop starts over. *)
EndFrame ==
    /\ pc = "frame" /\ pc' = "poll"
    /\ out' = Silence
    /\ UNCHANGED <<client, server, open, clock, now, cur>>

(* SIGINT or SIGTERM was seen at the top of the loop: rtsp_server_close. *)
Close ==
    /\ pc = "poll" /\ pc' = "closed"
    /\ open' = open \ UNION {HeldBy(client[i]) : i \in Slot}
    /\ client' = [i \in Slot |-> ClientReset(client[i])]
    /\ out' = Silence
    /\ UNCHANGED <<server, clock, now, cur>>

Tick ==
    /\ clock < MaxClock /\ clock' = clock + 1
    /\ out' = Silence
    /\ UNCHANGED <<client, server, open, now, pc, cur>>

-----------------------------------------------------------------------------
Accept == NoPeer \/ RefusePeer \/ \E i \in Slot, fd \in Fds : AcceptPeer(i, fd)

Setup ==
    \/ SetupNoTransport \/ SetupTcp \/ SetupNoPorts
    \/ \E rtp, rtcp \in Fds : SetupUdp(rtp, rtcp) \/ SetupLastPort(rtp, rtcp)

Handle ==
    \/ Unauthorized \/ Options \/ GetParameter \/ UnknownMethod
    \/ StreamNotFound \/ Describe \/ Setup \/ BadSession \/ Play \/ Teardown

Loop == Accept \/ SkipFreeSlot \/ Hangup \/ Receive \/ Handle \/ FinishClient \/ EndFrame

Outside == Tick \/ \E s \in Stream : TakeIdr(s)

Next == Loop \/ (\E nal \in Nals : PushNal(nal)) \/ Close \/ Outside

Spec == Init /\ [][Next]_vars

-----------------------------------------------------------------------------
(* Properties of the server's own state. *)

(* Every variable has its type. *)
TypeOK ==
    /\ client \in [Slot -> Client]
    /\ cached \in [Stream -> SUBSET {"SPS", "PPS"}] /\ idr \subseteq Stream
    /\ open \subseteq Fds
    /\ clock \in Nat /\ now \in Nat
    /\ pc \in {"poll", "recv", "drain", "frame", "closed"} /\ cur \in Slot
    /\ out \in [Slot -> Seq(Message)]

(***************************************************************************)
(* The flags of rtsp_client_t agree across every order of SETUP, PLAY,     *)
(* TEARDOWN, failed SETUP, hangup and reuse of the slot: nothing plays,    *)
(* waits or is set up outside a session, or in a slot without connection.  *)
(***************************************************************************)
FlagsAgree(c) ==
    /\ c.playing => c.session # NoSession
    /\ c.waiting_for_sps => c.playing
    /\ \A t \in Track : c.tracks[t].active => c.session # NoSession
    /\ c.session # NoSession => c.tcp_fd # NoFd

SessionFlagsAgree == \A i \in Slot : FlagsAgree(client[i])

(***************************************************************************)
(* No descriptor leaks and none is held twice: what the process has open   *)
(* is exactly what the slots hold, so track_close() and client_reset()     *)
(* never close a descriptor that belongs to someone else by now; and an    *)
(* active track has both its sockets over UDP and none when interleaved.   *)
(***************************************************************************)
FdsDistinct(c) ==
    /\ c.tcp_fd \notin AllTrackFds(c)
    /\ TrackFds(c.tracks["video"]) \cap TrackFds(c.tracks["metadata"]) = {}
    /\ \A t \in Track :
          /\ (c.tracks[t].rtp_fd = NoFd) = (c.tracks[t].rtcp_fd = NoFd)
          /\ c.tracks[t].rtp_fd # NoFd => c.tracks[t].rtp_fd # c.tracks[t].rtcp_fd
          /\ c.tracks[t].active => c.tracks[t].interleaved = (c.tracks[t].rtp_fd = NoFd)

FdsAccounted ==
    /\ open = UNION {HeldBy(client[i]) : i \in Slot}
    /\ \A i, j \in Slot : i # j => HeldBy(client[i]) \cap HeldBy(client[j]) = {}
    /\ \A i \in Slot : FdsDistinct(client[i])

(***************************************************************************)
(* recv() is never called with a full buffer: asked for no byte it returns *)
(* 0, and rtsp_server_poll would take that for a hangup.                   *)
(***************************************************************************)
BufferHasRoom ==
    \A i \in Slot :
       \/ Len(client[i].rxbuf) < RxCapacity
       \/ pc = "drain" /\ i = cur /\ Len(client[i].rxbuf) = RxCapacity
=============================================================================
