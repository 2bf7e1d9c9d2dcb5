----------------------------- MODULE StreamLoop -----------------------------
(***************************************************************************)
(* The main loop of src/majestic/mini_streamer.c: the RTSP server of       *)
(* module RtspServer together with venc_get_stream(), which takes a frame  *)
(* from the encoder, pushes its NAL units and gives the frame back.  The   *)
(* encoder itself is a queue of finished frames that grows at any time; it *)
(* begins an IDR frame when it was asked for one, and whenever it likes    *)
(* (every VENC_GOP_FRAMES frames).                                         *)
(***************************************************************************)
EXTENDS RtspServer

CONSTANTS
    Frames,     \* frames the encoder may produce
    MaxReady,   \* bound: frames waiting in the driver
    MaxNalus,   \* VENC_STREAM_NALU_MAX, the NAL entries of a frame record
    MapFails    \* mmap() of a NAL may fail

(* A NAL entry: "zero" has length 0, "bare" only a start code. *)
Unit == [kind : {"SPS", "PPS", "SEI", "slice"},
         size : {"zero", "bare", "small", "medium", "large"}]
Frame == [stream : Stream, units : Seq(Unit)]

Count(f) == IF Len(f.units) < MaxNalus THEN Len(f.units) ELSE MaxNalus

(* Entry k as rtsp_server_push_nal gets it. *)
NalAt(f, k) == [stream |-> f.stream, kind |-> f.units[k].kind, size |-> f.units[k].size,
                last |-> k = Count(f)]

Empty(u) == u.size \in {"zero", "bare"}  \* skipped by the loop, or by push_nal

ASSUME StreamAssumption ==
    /\ Frames \subseteq Frame
    /\ MaxReady \in Nat /\ MaxNalus \in Nat \ {0} /\ MapFails \in BOOLEAN
    /\ \A f \in Frames : \A k \in 1 .. Count(f) : Empty(f.units[k]) \/ NalAt(f, k) \in Nals

NoFrame == [stream |-> -1, units |-> <<>>]

VARIABLES
    ready,  \* frames the encoder finished, oldest first
    held,   \* the frame got and not yet released, or NoFrame
    next,   \* its NAL entry to push next
    got,    \* history: entries of held that each peer was sent
    asked   \* history: stream whose IDR each peer's PLAY asked for

encoder == <<ready, held, next>>
streamVars == <<vars, encoder, got, asked>>

NotAsked == -1
Nothing == [i \in Slot |-> <<>>]

StreamInit ==
    /\ Init
    /\ ready = <<>> /\ held = NoFrame /\ next = 1
    /\ got = Nothing /\ asked = [i \in Slot |-> NotAsked]

-----------------------------------------------------------------------------
(* The encoder. *)

IsSps(u) == u.kind = "SPS" /\ ~Empty(u)
IsIdr(f) == \E k \in 1 .. Count(f) : IsSps(f.units[k])

(* Variant: one frame serves the requests of every channel. *)
Encode_AllServed(f) ==
    /\ Len(ready) < MaxReady /\ ready' = Append(ready, f)
    /\ f.stream \in idr => IsIdr(f)
    /\ idr' = IF IsIdr(f) THEN {} ELSE idr
    /\ out' = IF f.stream \in idr THEN Silence ELSE out
    /\ UNCHANGED <<client, cached, open, loop, held, next, got, asked>>

Encode(f) ==
    /\ Len(ready) < MaxReady /\ ready' = Append(ready, f)
    /\ IF f.stream \in idr THEN IsIdr(f) /\ TakeIdr(f.stream) ELSE UNCHANGED vars
    /\ UNCHANGED <<held, next, got, asked>>

-----------------------------------------------------------------------------
(* venc_get_stream. *)

Pushing == pc = "frame" /\ held # NoFrame

(* The ioctl fails when nothing is ready: the loop sleeps and starts over. *)
NothingReady ==
    /\ held = NoFrame /\ ready = <<>>
    /\ EndFrame
    /\ UNCHANGED <<encoder, got, asked>>

GetStream ==
    /\ pc = "frame" /\ held = NoFrame /\ ready # <<>>
    /\ held' = Head(ready) /\ ready' = Tail(ready) /\ next' = 1
    /\ got' = Nothing
    /\ UNCHANGED <<vars, asked>>

SkipUnit ==
    /\ Pushing /\ next <= Count(held)
    /\ Empty(held.units[next]) \/ MapFails
    /\ next' = next + 1
    /\ UNCHANGED <<vars, ready, held, got, asked>>

PushUnit ==
    /\ Pushing /\ next <= Count(held) /\ ~Empty(held.units[next])
    /\ PushNal(NalAt(held, next))
    /\ next' = next + 1
    /\ got' = [i \in Slot |-> IF out'[i] = <<>> THEN got[i]
                 ELSE Append(got[i], [unit |-> next, marker |-> [k \in DOMAIN out'[i] |->
                                                                   out'[i][k].marker]])]
    /\ UNCHANGED <<ready, held, asked>>

ReleaseStream ==
    /\ Pushing /\ next > Count(held)
    /\ held' = NoFrame /\ got' = Nothing
    /\ EndFrame
    /\ UNCHANGED <<ready, next, asked>>

-----------------------------------------------------------------------------
(* The server's own steps, with a note of the stream PLAY asks for, until  *)
(* the peer's next SETUP or the end of its session.                        *)

Answered(i, method) == \E k \in DOMAIN out'[i] :
    /\ out'[i][k].kind = "reply" /\ out'[i][k].status = 200
    /\ out'[i][k].req.method = method

NoteAsked ==
    asked' = [i \in Slot |->
                IF Answered(i, "PLAY") THEN client[i].stream_id
                ELSE IF Answered(i, "SETUP") \/ ~client'[i].playing
                     THEN NotAsked ELSE asked[i]]

ServerStep ==
    /\ \/ Accept \/ SkipFreeSlot \/ Hangup \/ Receive \/ Handle \/ FinishClient
       \/ Close \/ Tick
    /\ NoteAsked
    /\ UNCHANGED <<encoder, got>>

VencStep == NothingReady \/ GetStream \/ SkipUnit \/ PushUnit \/ ReleaseStream

StreamNext == ServerStep \/ VencStep \/ \E f \in Frames : Encode(f)

StreamSpec == StreamInit /\ [][StreamNext]_streamVars

(***************************************************************************)
(* Fairness: the loop runs as long as the process does (its one blocking   *)
(* call is the write to stdout, taken to be read), and the sensor gives    *)
(* the encoder 25 pictures a second on each channel.                       *)
(***************************************************************************)
EncodeOn(s) == \E f \in Frames : f.stream = s /\ Encode(f)

FairStreamSpec ==
    /\ StreamSpec
    /\ WF_streamVars(VencStep \/ (ServerStep /\ clock' = clock /\ pc' # "closed"))
    /\ \A s \in Stream : SF_streamVars(EncodeOn(s))

-----------------------------------------------------------------------------
(* Properties. *)

Sendable(f) == {k \in 1 .. Count(f) : ~Empty(f.units[k]) /\ f.units[k].kind # "SEI"}
AtRelease == Pushing /\ next > Count(held)

(***************************************************************************)
(* A peer gets every NAL of a frame in the encoder's order, or none: no    *)
(* PLAY, SETUP or TEARDOWN falls between two NALs of a frame, and a peer   *)
(* that waits is let in at the first NAL of an IDR frame.                  *)
(***************************************************************************)
FramesWhole ==
    AtRelease => \A i \in Slot : got[i] # <<>> =>
       /\ {got[i][n].unit : n \in DOMAIN got[i]} = Sendable(held)
       /\ \A m, n \in DOMAIN got[i] : m < n => got[i][m].unit < got[i][n].unit

(***************************************************************************)
(* The last packet a peer gets of a frame has the marker, no other has.    *)
(* PORTING_GUIDE.md:276: "marker on a frame's last packet".                *)
(***************************************************************************)
MarkerEndsFrame ==
    AtRelease => \A i \in Slot : \A n \in DOMAIN got[i] :
       \A k \in DOMAIN got[i][n].marker :
          got[i][n].marker[k] = (n = Len(got[i]) /\ k = Len(got[i][n].marker))

(* An IDR frame of stream s is on its way to the server's peers.           *)
IdrComing(s) ==
    \/ s \in idr
    \/ \E k \in DOMAIN ready : ready[k].stream = s /\ IsIdr(ready[k])
    \/ /\ held # NoFrame /\ held.stream = s
       /\ \E k \in next .. Count(held) : IsSps(held.units[k])

(* The peer's PLAY asked for an IDR frame that it has not been sent yet.   *)
Awaits(i) == /\ asked[i] # NotAsked
             /\ client[i].waiting_for_sps /\ client[i].tracks["video"].active

(***************************************************************************)
(* A peer waits for an SPS only while one is coming: the request made by   *)
(* PLAY (request_idr) is still with the encoder, or its answer is queued,  *)
(* whatever frames were in the driver when PLAY arrived.  This ends with   *)
(* the peer's next SETUP, which may turn it to a stream nobody asked for.  *)
(***************************************************************************)
IdrServed == \A i \in Slot : Awaits(i) => IdrComing(asked[i])

(* The wait that PLAY begins comes to an end, without help from the GOP.   *)
WaitEnds == \A i \in Slot : Awaits(i) ~> ~Awaits(i)

(* Seen from the sockets, loop and encoder together are the server of      *)
(* module RtspServer: what holds of it holds of mini_streamer's loop.      *)
ServerSpec == Spec
=============================================================================
