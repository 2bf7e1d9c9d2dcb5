------------------------------ MODULE MCStream ------------------------------
(* Small instances of mini_streamer's loop for TLC.                        *)
EXTENDS StreamLoop

Asked(method, stream, track, transport, id) ==
    [method |-> method, stream |-> stream, track |-> track, transport |-> transport,
     cred |-> TRUE, session |-> id]

(* SETUP over UDP finds no descriptors and fails. *)
PlayerRequests ==
    {Asked("SETUP", 0, "video", "tcp", NoSession), Asked("SETUP", 1, "video", "tcp", NoSession),
     Asked("SETUP", 0, "metadata", "tcp", NoSession),
     Asked("SETUP", 0, "video", "udp", NoSession), Asked("PLAY", 0, "video", "tcp", 1)}

UnitOf(kind, size) == [kind |-> kind, size |-> size]
FrameOf(stream, units) == [stream |-> stream, units |-> units]

(* An IDR frame and a following one on each stream. *)
TwoStreams ==
    {FrameOf(0, <<UnitOf("SPS", "small"), UnitOf("PPS", "small"), UnitOf("slice", "large")>>),
     FrameOf(0, <<UnitOf("SEI", "small"), UnitOf("slice", "zero"), UnitOf("slice", "medium")>>),
     FrameOf(1, <<UnitOf("SPS", "small"), UnitOf("slice", "medium")>>),
     FrameOf(1, <<UnitOf("slice", "bare"), UnitOf("slice", "large")>>)}

MainStream == {f \in TwoStreams : f.stream = 0}

StreamNals ==
    Nal \cap UNION {{NalAt(f, k) : k \in 1 .. Count(f)} : f \in TwoStreams}
=============================================================================
