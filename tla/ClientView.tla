----------------------------- MODULE ClientView -----------------------------
(***************************************************************************)
(* What the peer of each slot has seen of rtsp_server.c since it           *)
(* connected, as a history variable fed by what RtspServer sends, and the  *)
(* properties of the server stated in the peer's terms: replies, RTP       *)
(* packets and BYEs on one connection, never the server's own flags.       *)
(***************************************************************************)
EXTENDS RtspServer, SequencesExt

CONSTANT Lossy  \* send_all() may find the socket full and drop media

ASSUME LossyAssumption == Lossy \in BOOLEAN

VARIABLE view

viewVars == <<vars, view>>

NotSetUp == -1

Fresh == [answered |-> 0, granted |-> FALSE, playing |-> FALSE, session |-> NoSession,
          stream |-> 0, next |-> [t \in Track |-> NotSetUp], heard |-> FALSE,
          metas |-> 0, playedAt |-> 0]

-----------------------------------------------------------------------------
Confirms(m, method) == m.status = 200 /\ m.req.method = method

AfterSetup(v, m) ==
    [v EXCEPT !.session = m.session, !.stream = m.req.stream,
              !.next[m.req.track] = 0]

AfterPlay(v, m) ==
    [v EXCEPT !.playing = TRUE, !.heard = FALSE, !.granted = m.req.cred,
              !.metas = 0, !.playedAt = clock]

AfterTeardown(v) ==
    [v EXCEPT !.playing = FALSE, !.session = NoSession, !.heard = FALSE]

SeeReply(v, m) ==
    [(IF Confirms(m, "SETUP") THEN AfterSetup(v, m)
      ELSE IF Confirms(m, "PLAY") THEN AfterPlay(v, m)
      ELSE IF Confirms(m, "TEARDOWN") THEN AfterTeardown(v)
      ELSE IF m.status = 500 THEN [v EXCEPT !.next[m.req.track] = NotSetUp]
      ELSE v) EXCEPT !.answered = m.cseq]

SeePacket(v, m) ==
    LET w == [v EXCEPT !.next[m.track] = (m.seq + 1) % SeqModulus] IN
    IF m.track = "metadata" THEN [w EXCEPT !.metas = @ + 1]
    ELSE [w EXCEPT !.heard = TRUE]

See(v, m) ==
    IF m.kind = "reply" THEN SeeReply(v, m)
    ELSE IF m.kind = "rtp" THEN SeePacket(v, m)
    ELSE [v EXCEPT !.next[m.track] = NotSetUp]

Sent(i, kind) == {k \in 1 .. Len(out'[i]) : out'[i][k].kind = kind}

(***************************************************************************)
(* send_all() gives up when the non-blocking socket is full and tells      *)
(* nobody.  full is the set of slots it gives up on in this step: only     *)
(* media fills a socket, so only media is dropped.                         *)
(***************************************************************************)
FullSockets == IF Lossy THEN SUBSET {i \in Slot : Sent(i, "rtp") # {}} ELSE {{}}

Observe ==
    \E full \in FullSockets :
       view' = [i \in Slot |->
                  IF client'[i].tcp_fd # client[i].tcp_fd THEN Fresh
                  ELSE IF i \in full THEN view[i]
                  ELSE FoldLeft(See, view[i], out'[i])]

ViewInit == Init /\ view = [i \in Slot |-> Fresh]
ViewNext == Next /\ Observe

ViewSpec == ViewInit /\ [][ViewNext]_viewVars

-----------------------------------------------------------------------------
(***************************************************************************)
(* Fairness.  mini_streamer's loop runs as long as the process does and no *)
(* call in it blocks but the write of the raw stream to stdout, so each    *)
(* enabled step of it is taken.  The encoder repeats SPS and PPS with each *)
(* I frame (GOP of 25 frames) for every channel that was started.          *)
(***************************************************************************)
ParameterSets ==
    {nal \in Nals : nal.kind \in {"SPS", "PPS"} /\ nal.stream \in EnabledStreams}

LoopStep == Loop /\ Observe
Delivers(nal) == PushNal(nal) /\ Observe

FairViewSpec ==
    /\ ViewSpec
    /\ WF_viewVars(LoopStep)
    /\ \A nal \in ParameterSets : SF_viewVars(Delivers(nal))

-----------------------------------------------------------------------------
(* Properties. *)

(***************************************************************************)
(* Replies come in the order of the requests, each request is answered at  *)
(* most once, and a deferred DESCRIBE is not overtaken: drain_requests     *)
(* takes one request at a time and leaves it in rxbuf until it answered.   *)
(***************************************************************************)
RepliesInOrder ==
    [][\A i \in Slot : \A k \in Sent(i, "reply") :
          out'[i][k].cseq > view[i].answered]_viewVars

(***************************************************************************)
(* A peer gets media only for a track it set up, of the stream of its last *)
(* SETUP, after its own PLAY was answered and before its TEARDOWN was: no  *)
(* slot hands the session of an earlier peer to the next one.              *)
(***************************************************************************)
MediaAsNegotiated ==
    [][\A i \in Slot : \A k \in Sent(i, "rtp") :
          /\ view[i].playing
          /\ view[i].next[out'[i][k].track] # NotSetUp
          /\ out'[i][k].stream = view[i].stream]_viewVars

(***************************************************************************)
(* Media goes only to a loopback peer or to one whose PLAY carried the     *)
(* right credentials (auth_ok), whoever held the slot before.              *)
(***************************************************************************)
MediaOnlyWithCredentials ==
    [][\A i \in Slot : Sent(i, "rtp") # {} =>
          ~AuthEnabled \/ client[i].loopback \/ view[i].granted]_viewVars

(* The sequence numbers a peer receives on a track run on from its SETUP   *)
(* without a gap (rtp_send, handle_setup), modulo 2^16.                    *)
SequenceContinues ==
    [][\A i \in Slot : \A k \in Sent(i, "rtp") :
          LET before == {j \in Sent(i, "rtp") : j < k /\ out'[i][j].track = out'[i][k].track}
          IN  out'[i][k].seq = (view[i].next[out'[i][k].track] + Cardinality(before))
                               % SeqModulus]_viewVars

(* The first video packet after a PLAY is an SPS, so that a decoder can    *)
(* start: waiting_for_sps in rtsp_server_push_nal.                         *)
PlayStartsAtSps ==
    [][\A i \in Slot : \A k \in Sent(i, "rtp") :
          out'[i][k].track = "video" /\ ~view[i].heard /\ k = 1
             => out'[i][k].nal = "SPS"]_viewVars

(* TEARDOWN says goodbye on each track that was set up, video first, and   *)
(* answers last (handle_request, send_bye).                                *)
TeardownSaysGoodbye ==
    [][\A i \in Slot : \A k \in Sent(i, "reply") :
          Confirms(out'[i][k], "TEARDOWN") =>
             /\ k = Len(out'[i])
             /\ {out'[i][j].track : j \in Sent(i, "bye")}
                   = {t \in Track : view[i].next[t] # NotSetUp}
             /\ \A j \in Sent(i, "bye") : out'[i][j].track = "video" => j = 1]_viewVars

(* A session keeps its id from the first SETUP to the TEARDOWN.            *)
SessionIdKept ==
    [][\A i \in Slot : \A k \in Sent(i, "reply") :
          Confirms(out'[i][k], "SETUP") /\ view[i].session # NoSession
             => out'[i][k].session = view[i].session]_viewVars

(* Metadata packets are never ahead of one per interval since PLAY: late   *)
(* polls catch up, they do not add packets (next_metadata_us += interval). *)
MetadataPaced ==
    \A i \in Slot : view[i].playing =>
       view[i].metas <= 1 + (clock - view[i].playedAt) \div MetadataInterval

(***************************************************************************)
(* Every request is answered unless the connection ends, a DESCRIBE that   *)
(* came before the parameter sets included, provided what the peer         *)
(* pipelines fits the receive buffer.                                      *)
(***************************************************************************)
RequestsAnswered ==
    \A i \in Slot : \A n \in 1 .. MaxCSeq :
       client[i].cseq >= n ~> (view[i].answered >= n \/ client[i].cseq < n)

(* A peer that plays a video track it set up gets video, or ends the       *)
(* session: no waiting_for_sps is left waiting for ever.                   *)
VideoArrives ==
    \A i \in Slot :
       (view[i].playing /\ view[i].next["video"] # NotSetUp)
          ~> (view[i].heard \/ ~view[i].playing \/ view[i].next["video"] = NotSetUp)
=============================================================================
