------------------------------- MODULE MCRtsp -------------------------------
(* Small instances of the RTSP server and its peers for TLC: which         *)
(* requests the peers choose from and which NALs the encoder delivers.     *)
EXTENDS ClientView

Asked(method, stream, track, transport, cred, id) ==
    [method |-> method, stream |-> stream, track |-> track, transport |-> transport,
     cred |-> cred, session |-> id]

Plain(method) == Asked(method, 0, "video", "none", TRUE, NoSession)
SetupVideo(stream, transport) == Asked("SETUP", stream, "video", transport, TRUE, NoSession)
SetupMetadata(stream, transport) == Asked("SETUP", stream, "metadata", transport, TRUE, NoSession)
DescribeOf(stream) == Asked("DESCRIBE", stream, "video", "none", TRUE, NoSession)
PlayOf(id) == Asked("PLAY", 0, "video", "none", TRUE, id)
TeardownOf(id) == Asked("TEARDOWN", 0, "video", "none", TRUE, id)
NoCredentials(r) == [r EXCEPT !.cred = FALSE]

NalOf(stream, kind, size, last) ==
    [stream |-> stream, kind |-> kind, size |-> size, last |-> last]

(* One peer sets up, plays and tears down in every order. *)
SessionRequests ==
    {SetupVideo(0, "tcp"), SetupVideo(1, "udp"), SetupMetadata(0, "tcp"),
     PlayOf(1), TeardownOf(1)}

BothStreams ==
    {NalOf(0, "SPS", "small", FALSE), NalOf(1, "SPS", "small", FALSE),
     NalOf(0, "slice", "large", TRUE), NalOf(1, "slice", "medium", TRUE)}

(* Peers with and without credentials take over each other's slots. *)
PeerRequests ==
    {SetupVideo(0, "udp"), PlayOf(1), TeardownOf(1),
     NoCredentials(SetupVideo(0, "udp")), NoCredentials(PlayOf(1))}

PeerNals == {NalOf(0, "SPS", "small", TRUE)}

(* One peer pipelines, before and after the parameter sets are there, and *)
(* plays the metadata track while time passes. *)
PipelineRequests ==
    {DescribeOf(0), DescribeOf(2), Plain("OPTIONS"), Plain("NUL"),
     SetupVideo(0, "none"), SetupVideo(1, "tcp"), SetupMetadata(0, "tcp"), PlayOf(1), PlayOf(2)}

PipelineNals ==
    {NalOf(0, "SPS", "small", FALSE), NalOf(0, "SPS", "medium", FALSE),
     NalOf(0, "PPS", "small", FALSE), NalOf(0, "SEI", "small", TRUE)}

(* Requests of a peer whose every request must be answered. *)
LiveRequests ==
    {DescribeOf(0), SetupVideo(0, "tcp"), SetupVideo(1, "tcp"), PlayOf(1), Plain("UNKNOWN")}

LiveNals ==
    {NalOf(0, "SPS", "small", FALSE), NalOf(0, "PPS", "small", FALSE),
     NalOf(1, "SPS", "small", FALSE), NalOf(1, "slice", "large", TRUE)}
=============================================================================
