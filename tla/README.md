# TLA+ models of the FH8852V201 camera software

This directory specifies `src/majestic` (`mini_streamer`, the RTSP streamer that replaces
majestic on a camera with the FH8852V201 chip) and the part of `src/sdk/lib` it is linked with.
The modules are translated from the C code; line references are in `PROJECT.json` under `map`.

    tlc -config session.cfg MCRtsp      # one run; each .cfg names its module in section 4
    tlapm RtspServerProofs.tla          # the proofs of one module

## 1. The system

`mini_streamer` is one process with one thread and no library of its own but the C library. It
configures the drivers (`/dev/isp`, `/dev/enc`, `/dev/media_process`, `/dev/vmm_userdev`, the
sensor over I2C), opens an RTSP server on port 554 and repeats until a signal:

1. `rtsp_server_poll`: accept one connection; for each of the slots, receive, handle whole
   requests, send a metadata packet if one is due;
2. `venc_get_stream`: take one finished frame from the encoder, push each of its NAL units to the
   clients that play its stream, give the frame back; without a frame, sleep 2 ms.

| component | source | state it keeps | operations | module |
|---|---|---|---|---|
| RTSP/RTP server | `majestic/rtsp_server.c`, `.h` | slots (`rtsp_client_t`): socket, session, flags, two tracks with sockets and sequence numbers, receive buffer; cached SPS/PPS per stream | init, poll, push_nal, close; OPTIONS, DESCRIBE, SETUP, PLAY, GET_PARAMETER, TEARDOWN | `RtspServer` |
| what a peer sees | the same, from the other end | the messages received on one connection | receive, lose | `ClientView` |
| streaming loop | `majestic/mini_streamer.c` 337-401, 487-496 | the frame in hand; the driver's queue; the encoder's pending IDR requests | poll, get, skip, push, release | `StreamLoop` |
| ISP buffer pool | `sdk/lib/isp_buf_addr.c` | pool base, size, cursor; thirteen buffer addresses | size, reserve, cut, hand over | `IspBufPool` |
| fragmentation | `majestic/rtsp_server.c` 592-608 | loop offset, start bit | send one NAL to one client | `FuPacketizer`, `NalDelivery` |
| bring-up | `majestic/mini_streamer.c` 83-335, 403-516 | open devices, reserved memory, what each driver was given, `g_running` | open, set the sensor up, about fifty driver calls in order, start the server, loop, close; signals | `BringUp` |
| ISP registers | `sdk/lib/isp_init.c` | the mapped registers | map, reset, five tables, window search, enable | `IspWindow`, `IspSetup` |
| sensor library | `majestic/libcv2003_mipi.c` | I2C device, slave address, v_cycle, exposure, gain | 31 callbacks | `Cv2003Sensor`, `Cv2003Chip`, `Cv2003Gain` |
| sensor driver | `sdk/lib/cv2003_driver.c` | I2C device, address, v_cycle | probe, format, exposure, gain | `Cv2003Driver`, `Cv2003Chip`, `Cv2003Gain`, within `BringUp` |
| MPI shim | `sdk/lib/fh_mpi.c` | device descriptors | open, one ioctl each | not modelled (section 6) |
| bitrate | `majestic/majestic_bitrate.h` | none | a floating-point formula | not modelled |
| oracle | `tools/majestic-oracle` | recordings | capture, replay, compare | not modelled; quoted |
| the rest | `sdk/headers`, `sdk/tests`, `sdk/tools`, `runtime`, `firmware`, `tools/majestic-chroot` | - | - | not modelled |

How they interact: the loop calls the server (`rtsp_server_poll`, `rtsp_server_push_nal`) and the
server calls back (`venc_request_idr`, at PLAY). Frames reach the loop through the driver's queue,
so a PLAY is handled while frames produced before it are still waiting there. `isp_setup` has the pool
cut and handed to `isp.ko`, then the register table written through `/dev/mem` between the addresses `isp.ko` has just put there,
then processing enabled. `vpss_setup`, `venc_sys_init` and `venc_chn_setup` ask a driver for a size, reserve that much of `vmm.ko`
and give it to the driver, through the same two variables each time. `main` probes the sensor, sets its format and closes it at the end through
`cv2003_driver.c`. `libcv2003_mipi.so` is the same sensor's driver for majestic itself, whose ISP library (not in the repository) calls
its table of callbacks. Peers reach the server over TCP (requests, replies,
interleaved media) and UDP (media).

What is hard in it:

- *Sequences of legal requests*: SETUP again, SETUP while playing, PLAY twice, requests
  pipelined behind TEARDOWN, failed SETUPs, hangups at any point, the slot reused by someone else.
- *Outside against the loop*: requests arrive in any grouping; the encoder, the clock and other
  peers go on between two steps; frames queued earlier are seen later.
- *Half a bring-up*: any of some fifty calls may be refused after others have reserved memory and started hardware; a signal may come in between.
- *Order*: the drivers ask for an order that no call checks, and two comments of the repository disagree about it.
- *Failure*: UDP ports or descriptors run out, a socket is full, `mmap()` fails, `isp.ko` or
  `vmm.ko` refuse, an I2C transfer is lost in the middle of a register group.
- *Limits*: the receive buffer, the slots, the 16-bit sequence number, 32-bit addresses.
- *Eventually*: a deferred DESCRIBE is answered, a player that waits for an SPS gets one.

The list with its lines is under `hazards` in `PROJECT.json`; each entry names the properties that
would notice, or says why none does yet.

## 2. The models

### RtspServer

A handler runs to its end before anything else happens (one thread), so each request handled is
one atomic action, with every call its handler makes: `SetupUdp` includes `track_close`,
`bind_udp_pair` and the reply. The steps of a poll pass are separate (`pc`, `cur`), because the
outside moves between them: `pc` is `poll` at the top of the loop, `recv` and `drain` within
`rtsp_server_poll` at slot `cur`, `frame` in `venc_get_stream`, and `closed` at the end.

| variable | code |
|---|---|
| `client` | `srv->clients`, one record per slot; `session` joins `has_session` and `session_id`; `rxbuf` is the requests in the buffer |
| `cached` | `sps_len`, `pps_len` per stream |
| `idr` | what `request_idr` asked of the encoder and it has not begun |
| `open` | the descriptors of the process that belong to connections |
| `clock`, `now` | `now_us()`, and the value read at line 560 |
| `out` | what the last step passed to `send_all` and `track_send`, per peer |

Data is abstracted to what the handlers decide on. A request is a record (method, stream, track,
transport, whether the credentials are right, session); a request with a zero byte is the method
`NUL`, which `strstr` cannot see past. The receive buffer counts requests, not bytes. A NAL has a
size class: fits the 128-byte cache, fits one packet, needs FU-A. The kernel hands out the lowest
free descriptor, and may run out; `bind` may refuse, or give the last port. A peer on the
loopback interface needs no credentials, so `AcceptPeer` chooses.

### ClientView

A history variable `view` per slot, fed from `out`: which requests were answered, the session,
the next sequence number expected on each track, whether video was heard since PLAY. The
properties of the wire are stated over it, never over the server's flags, so a flag that is
wrong shows as a message that is wrong. With `Lossy`, a socket may be full (`send_all` gives up).

### StreamLoop

`StreamLoop` EXTENDS `RtspServer` and replaces the arbitrary `PushNal` by the loop's: frames wait in
`ready`, `GetStream` takes the oldest into `held`, `PushUnit`, `SkipUnit` go through its entries in order,
`ReleaseStream` gives it back. The encoder (`Encode`, external) may finish any frame at any time, with one
obligation: a frame begun after a request for an IDR is an IDR frame. Frames already in `ready`
are not touched by that. Two history variables (`got`, `asked`) record what each peer was given
of the frame in hand, and which stream's IDR its PLAY asked for.

The module's abstract specification is `RtspServer`'s `Spec` itself: `ServerSpec == Spec` says that every
step of loop and encoder is, on the server's variables, a step of the server or a stutter. What
is proved or checked of `Spec` therefore holds in the loop.

### FuPacketizer, NalDelivery

`RtspServer` sends a NAL that needs fragments as two packets; `FuPacketizer` is the loop behind that, for one
client, with lengths in bytes. `Push` is the call, `Single` the early return, `Fragment` one turn of the loop.
A payload is a range of bytes of the NAL (`from`, `size`), so a byte lost or sent twice is a range that does not
continue the one before. The peer (external) joins fragments by RFC 6184 and starts again when one does not fit.
The abstract specification `NalDelivery` has two steps, a NAL is handed over and it arrives; `NalsArrive` says that loop and peer
together implement it. A transport that loses packets is the subject of `ClientView`, not of this module.

### IspBufPool

One call of `isp_core_alloc_buf_addr`: the pool is reserved with the total that
`isp_core_get_buf_size` computes, thirteen ALLOC lines cut it, three ioctls hand it over. Sums and
addresses are words (`WordModulus`), cut where the code stores them. The comparison at line 312 is
not an action: the size reserved one line above is the value compared with. The module is the first half of `IspSetup`.

### IspWindow, IspSetup

`IspWindow` is the arithmetic of `isp_set_stat_param`: `Log2` (`easylog2`), the first guess and the limit of each of the three
windows in both modes, the search of `isp_win_param`, the reciprocal. `Word` cuts where a `uint32_t` does, so the search runs past zero where the code's does.
`NoSize` is the code's `0xffffffff`; a search that gets there divides by zero, whose outcome is undefined: `IspSetup` then ends in stage `undefined`.

`IspSetup` is `isp_setup` from the buffers on: the pool's steps, then one action per function of `isp_init.c`, chained by `stage`.
A register holds the *name* of the table it was last written from (`regs`); the values are the vendor's data, the places and the order are the
program. `SET_DMA_ADDRS` makes `isp.ko` (external) write its eleven registers, among which the line strides and windows come to lie.
The C lines that copy a table to consecutive offsets are `From` and `Words`.

### BringUp

`main()` around the loop. The calls after the sensor's are a sequence, `Script`, put together from the functions that make them
(`vpss_setup`, `isp_setup`, `venc_sys_init`, `venc_channel` for each channel, the server), and `at` is the call to make next. What a call does
to the program's state is the action: `AskSize`, `vmm_alloc`, `GiveMemory`, `OpensDescriptor`, or `PlainCall`, which only succeeds; any call but those whose
result the code ignores (`0x80306926`, `0x6910`) or that return none may be refused instead (`CallFails`), and `main` returns 1 with nothing undone.

| variable | code |
|---|---|
| `main`, `at` | where `main` is, the call at hand; how it returned |
| `done` | history: the calls that succeeded |
| `size`, `ph` | the locals `sz` and `ph`: what a driver asked for last, the zone reserved last |
| `zones`, `mem` | external: the zones `vmm.ko` reserved, and the one each driver was given |
| `fds` | the descriptors `main` insists on, `isp_ctx.mem_fd`, the server's socket |
| `running`, `got` | `g_running`, cleared by the signal handler at any time; whether the last turn of the loop had a frame |

A size is a value of its own per owner (the vpu, the encoder, each of their channels), so memory of another owner's size shows. The sensor is `Cv2003Driver` itself, which `BringUp` EXTENDS: every
step of `main` is a step of that module or leaves it alone (proved: `UpDrivesSensor`). The turn of the loop is one step here; what happens in it is `StreamLoop`.
Abstracted: the attributes passed, the `/proc` settings, which the code does not check, and `/dev/jpeg`, opened and never used or closed.

### Cv2003Chip, Cv2003Gain, Cv2003Sensor, Cv2003Driver

`Cv2003Chip` is the outside: who answers at 0x35 and 0x36 (`site`), the sensor's registers (`chip`), and
what a transfer can come to. With `Faults`, `open()` may fail and any transfer be lost. A device is the descriptor variable (`open`), the
number of descriptors really open (`held`) and the address. `Cv2003Gain` has the gain tables as formulas.

`Cv2003Sensor` has one action per callback of `cv2003_mipi_sensor_if` that changes anything, enabled in any order, since the caller is a closed
library. A group of writes is one action of which any subset arrives. `dev` is `g_fd` with `g_slave_addr`;
`v_cycle`, `exposure`, `gain`, `awb` are the globals. `SetIntt` and `SetGain` are called with any value; `AdjustIntt` and
`AdjustGain` are the pair of calls a careful caller makes, the Calc callback first. History: `ret` (what the last probe
said), `sound` (no transfer lost since `SetSensorFmt`), `wanted`, `wantedGain`. The registers are those some property looks at.

`Cv2003Driver` is `mini_streamer`'s driver: `cv2003_init` with the probe, `cv2003_set_format`, `cv2003_deinit`. `BringUp` has `main` call it.

## 3. Properties

| property | says | kind |
|---|---|---|
| `SessionFlagsAgree` | nothing plays, waits or is set up outside a session or without a connection | invariant, proved |
| `FdsAccounted` | what is open is what the slots hold, each descriptor once; sockets and transport of a track agree | invariant, proved |
| `BufferHasRoom` | `recv` is never called with a full buffer | invariant, proved |
| `SequenceContinues` | sequence numbers run on from SETUP without a gap, FU-A fragments included | action, proved |
| `PlayStartsAtSps` | the first video after PLAY is an SPS | action, proved |
| `MediaAsNegotiated` | media only for a track set up, of the stream of the last SETUP, between PLAY and TEARDOWN | action, proved |
| `MediaOnlyWithCredentials` | media only on a connection whose PLAY was authorised | action, proved |
| `TeardownSaysGoodbye` | one BYE per track, video first, then the reply | action, proved |
| `SessionIdKept` | a session keeps its id | action, proved |
| `RepliesInOrder` | replies in order, none twice, no overtaking of a deferred DESCRIBE | action, proved |
| `MetadataPaced` | metadata never ahead of one packet per interval since PLAY | invariant, proved |
| `RequestsAnswered`, `VideoArrives` | every request is answered; every player gets video | liveness |
| `FramesWhole` | a peer gets all sendable NALs of a frame in order, or none | invariant, proved |
| `MarkerEndsFrame` | the marker is on the last packet of a frame and no other | invariant, proved |
| `IdrServed` | a waiting peer's IDR is asked for, queued, or about to be pushed | invariant, proved |
| `WaitEnds` | the wait that PLAY begins ends | liveness |
| `ServerSpec` | loop and encoder implement the server's specification | refinement, proved |
| `PayloadFits` | no packet overruns `rtp_send`'s buffer or is empty; no fragment has both start and end bit | invariant, proved |
| `NalsArrive` | fragments join to the NAL, marker included, before the next one | refinement, proved |
| `PoolSuffices` | the computed total holds all buffers | invariant, proved |
| `BuffersApart`, `DmaSound` | buffers, and from `SET_DMA_ADDRS` on the addresses `isp.ko` has, lie apart in the pool | invariants, proved |
| `EnabledWhole` | the ISP is enabled only with every table at its place, none written over (the DMA addresses least of all), and the windows of this picture | invariant, proved |
| `WindowsSound` | the windows cover the picture without a sliver, are the largest that do so, and their reciprocals are the nearest | invariant |
| `OfferedStreamsFlow` | a stream the server offers has its whole way from the sensor, every driver on it with memory of its own size and no other's | invariant, proved |
| `DriversInOrder` | the drivers are called in the order they ask for | invariant, proved |
| `SignalEnds` | a signal ends the program, in the bring-up and without frames too | liveness |
| `OneDescriptor` | majestic's library never loses a descriptor of the I2C device | invariant, proved |
| `ProbeSound`, `ProbeComplete` | a sensor is found only where it is (faults included); without faults none is missed | invariants, proved |
| `FrameLengthAgrees` | `g_v_cycle` is the sensor's frame length until a transfer is lost | invariant, proved |
| `StreamsWhileOpen` | an open sensor is out of standby and streams, until a transfer is lost | invariant, proved |
| `ExposureAsAsked` | a validated integration time is what the shutter registers come to | invariant, proved |
| `GainAsAsked` | a validated gain selects the least entry that is not below it, in the right mode | invariant, proved |
| `BusHeldOnce` | `mini_streamer` holds the bus once, and not at its end | invariant, proved |
| `ProbedIsConfigured` | the sensor found is the sensor configured | invariant, proved |
| `DriverConfigures` | an undisturbed configuration is the one its test expects | invariant, proved |

`TypeOK` and `SensorTypeOK` (both proved) are the type invariants of the runs; those of the pool (`PoolTypeOK`), the driver and the bring-up are parts of the inductive invariants in the proof modules. Definitions marked "Variant" in the modules are
plausible slips of the same code; each property has one that it catches (`mutants` in
`PROJECT.json`).

## 4. Runs

| run | module | question | bounds |
|---|---|---|---|
| `session` | MCRtsp | SETUP (two streams, two tracks, TCP and UDP), PLAY, TEARDOWN in every order, with media between | 1 slot, 5 requests, sequence numbers modulo 4 |
| `peers` | MCRtsp | peers with and without credentials take slots over while descriptors run out | 2 slots, 5 descriptors, 3 requests per connection, reconnecting for ever |
| `pipeline` | MCRtsp | pipelined requests, deferred DESCRIBE, full buffer, NUL input; time passes anywhere in a pass | buffer of 3 requests, 3 per `recv`; clock to 5, interval 2 |
| `liveness` | MCRtsp | requests answered, video arrives | buffer larger than what a peer sends |
| `frames` | MCStream | two channels, empty entries, queued frames, IDR requests; refinement; the wait ends by the requested IDR | queue of 2, 3 entries a frame, 4 requests |
| `fragments` | MCFu | NALs cut and joined again, one after the other | `RTP_MAX_PAYLOAD` as in the code; lengths 1, 2 and from 2 below to 4 above the multiples of 1198 up to 4 |
| `isp` | MCIsp | the ISP's setup: pool, register tables, windows, enabling | 131 resolutions (the sensor's, the sub streams', 120 from 655 x 369 to 2440 x 1440, and five too small for the search), 3 addresses of 28 bits |
| `sensor` | MCSensor | the callbacks in every order, on every bus | 2 heights (0, and 66700: more than 16 bits), 3 times up to the largest word, 3 gains, 1 flip mode, 1 foreign write; no faults |
| `bringup` | MCBringUp | `main` from first `open()` to last `close()` with its sensor driver; every `open()`, transfer and call may fail; a signal at any time | 2 channels, as in the code |
| `slow_peer` | MCRtsp | violation: a full socket makes a gap in the sequence numbers | |
| `map_fails` | MCStream | violation: an `mmap()` that fails takes the marker with it | |
| `sensor_address` | MCSensor | violation: the format goes to the default address | |

Why the bounds are enough. Slots only interact through the descriptor table and the shared
caches, so two slots show every interaction and the proofs cover any number. Five descriptors are two
connections and one UDP pair with one left, so every kind of running out occurs. Four or five requests
suffice for SETUP, PLAY, SETUP again, TEARDOWN and one more; connections restart without bound.
A sequence modulus of 4 wraps in the middle of a two-packet NAL. FU-A into two packets has a first and a last
one; `fragments` has up to five, and the cut can only go wrong next to a multiple of 1198 or at 1200. TLC's integers end at 2^31, so `isp` uses 28-bit addresses, with one pool that ends just below the
modulus; the proofs are for any modulus that is a multiple of the pool's alignment. The sensor runs use 28-bit words for the same
reason. Their callbacks only interact through the globals and registers, which `sensor` visits completely; the values sit on both
sides of every comparison. With faults the torn register groups multiply beyond what TLC can visit in reasonable time, so lost transfers
in `Cv2003Sensor` are the proofs' part (`Faults` is arbitrary there), and TLC's in `Cv2003Driver`, within `bringup`. Two channels are the code's own number (`VPSS_CHANNEL_COUNT`); the proofs are for any. The window search depends on the picture alone: the sizes in `isp` end it at its first guess, after several steps, at its limit, and below it. Frame heights stay below 2^24, the shutter's width.

`CHECK_DEADLOCK FALSE` is set because the program stops: `Close` is the end of the process,
`isp_setup` returns, and `main` does.

### Fairness

`liveness`: weak fairness of the loop, since nothing in it blocks (sockets are non-blocking) as long as the reader of
stdout reads; strong fairness of each parameter set's delivery, since every channel repeats SPS and PPS with
each key frame (`VENC_GOP_FRAMES`). `Close`, `Tick` and new peers are never required. `WaitEnds` in `frames`
assumes less on purpose: only that the loop runs and that each channel goes on finishing frames when the queue
has room, of whatever kind; the IDR that ends the wait must come from the request PLAY made. `SignalEnds` in `bringup` assumes that `main` runs on,
since every call it makes returns (the encoder is polled without waiting); signals are never required.

### Findings

- `slow_peer`: `send_all` returns on `EAGAIN`; the packet, or the rest of it, is lost after its sequence number was used.
- `map_fails`: the marker is tied to the index of the last entry (`mini_streamer.c:395`), not to the last packet sent.
- `sensor_address`: `SetSensorFmt` reopens the device at 0x35 whatever the probe found; `README.md:1217` has the probed address. With a sensor at
  0x36 nothing is configured, `g_v_cycle` is 65535, and 0 is returned.

Observed while modelling, without a run: `isp_init.c:751` says of `isp_hw_init` "Call this BEFORE isp_start (ioctl 0x690A)", `isp_init.h:17` and `PORTING_GUIDE.md:223` say after; the code
calls it after, and so does the model (`DriversInOrder` takes the header's side). The window search falls below its own limit for pictures of about 250 rows or 596 columns and less, and divides by zero
below about 55; the pipeline's pictures are larger. `/dev/jpeg` is opened and never closed, an `mmap()` that fails in `isp_mmap` leaves a closed descriptor's number in `mem_fd`, and neither encoder nor ISP is stopped
at exit, which the kernel then does. A SETUP of the other stream while playing starts the new track in mid-GOP, because `waiting_for_sps`
stays 0 (`rtsp_server.c:426`); `SetSensorFmt` ends before the vendor's last step, which sets the shutter (`README.md:1227`); its gain index is one of
its own 69 gains where `README.md:1228` and `cv2003_driver.c:49` have the vendor's table of 250.

## 5. Proofs

| module | theorems | from |
|---|---|---|
| `RtspServerProofs` | `TypeCorrect`, `FlagsCorrect`, `BufferCorrect` | `ConstantsAssumption` |
| `RtspServerProofs` | `FdsCorrect` | the above |
| `StreamLoopProofs` | `LoopImplementsServer`, `LoopKeepsServer`, `IdrCorrect` | and `StreamAssumption`; `IdrCorrect` also `~MapFails` |
| `StreamLoopProofs` | `FramesAlwaysWhole` | and `~MapFails`, `ParameterSetsFirst` |
| `StreamLoopProofs` | `MarkerAlwaysLast` | and `~MapFails`, `LastIsSent` |
| `ClientViewProofs` | `RepliesAlwaysInOrder`, `MediaAlwaysNegotiated`, `MediaAlwaysAuthorized`, `SessionIdAlwaysKept`, `TeardownAlwaysSaysGoodbye`, `MetadataAlwaysPaced` | `ConstantsAssumption`, `LossyAssumption` |
| `ClientViewProofs` | `SequenceAlwaysContinues`, `PlayAlwaysStartsAtSps` | and `~Lossy` |
| `FuProofs` | `FragmentsFit`, `FuImplementsDelivery` | `FuAssumption` |
| `PoolProofs` | `PoolAlwaysSuffices`, `BuffersNeverOverlap`, `TableNeverOverlaps` | `PoolAssumption` |
| `PoolProofs` | `NeverEnabledHalf` | none |
| `SensorProofs` | `BusNeverLeaks`, `ProbeTruthful`, `FrameLengthKept`, `StreamKept`, `ExposureKept`, `SensorTypes`, `ProbeMissesNone`, `GainKept` | `SensorAssumption` |
| `BringUpProofs` | `UpDrivesSensor`, `BusNeverHeldTwice`, `ProbedAlwaysConfigured` | none of the assumptions; any number of channels and any `Faults` |
| `BringUpProofs` | `DriverAlwaysConfigures` | `DriverAssumption` |
| `ScriptProofs` | `StreamsAlwaysFlow`, `DriversAlwaysInOrder` | `ChannelAssumption` |

- *Types, flags, buffer.* Each handler changes one client, so each action is shown to keep the
  type of that record and `FlagsAgree` of it, the others being untouched. The buffer needs to know where
  in the pass the server is: only the slot being served may be full, and the overflow test runs before the pass leaves it.
- *Descriptors.* `FdsAccounted` is inductive given the types. The argument is about sets: a handler gives up
  `TrackFds` of one track and takes descriptors that were not open, so the union over the slots changes by exactly what
  `open` changes by, and the slots stay apart.
- *Refinement.* Each step of the loop is mapped to the server's step of the same name; `Encode` to `TakeIdr` or a stutter, `GetStream` and
  `SkipUnit` to stutters. `PushUnit` needs that the unit pushed is one of `Nals`, which `StreamAssumption` says of the
  frames and an invariant of the frame in hand.
- *IDR.* `IdrServed` is strengthened with where the peer's session is: a peer that awaits an IDR plays that very stream on
  an active track, so the first SPS pushed ends its wait, and an SPS is only passed over when it is pushed.
- *Frames.* `FrameInv` follows the peers through the frame in hand, by the sendable NALs that have been passed (`Passed`). A peer on the frame's stream that has got nothing waits, and no SPS has been passed (`LeftOut`); one that
  has got something has got, in order, all that was passed since it was let in, and an SPS let it in if it had waited (`LetIn`). So `FramesAlwaysWhole` needs what H.264
  says of an encoder's output, `ParameterSetsFirst`: the first NAL sent of a frame with an SPS is an SPS. The marker goes by the index of the frame's last NAL, so `MarkerAlwaysLast` needs
  `LastIsSent`: that one is sent, not an SEI or an empty entry. The frames of the run `frames` satisfy both; the run `map_fails` shows what happens to the marker without `~MapFails`.
- *The peer's view.* `ViewInv` keeps history and server in step, peer by peer (`PeerInv`): the requests in the buffer are newer than the one answered, and ascend (`Ordered`); the peer
  knows its session, stream, tracks and authorisation as the server has them (`SessionKnown`); what it was sent as metadata was due (`Due`); and unless messages are
  lost, its next sequence numbers are the server's and a peer that has heard nothing is one the server holds back (`MediaKnown`). A handler sends at most three messages, so the fold that
  updates the history is three steps of `See` (`FoldSee`). `Kinds` sorts the steps by what they are to one peer: silent, a new
  or ended connection, the reply to a request, metadata, video. Each kind is shown to keep `PeerInv`; every promise is then read off the invariant and the message of the step that sends it.
- *Fragments.* `FuInv`: between two turns of the loop the peer has joined exactly the bytes below `off`, and some are left;
  a first fragment is never the last, because a NAL above the limit has at least one byte more than header and one chunk.
- *Pool.* `PoolInv`: the cursor rounded up to 128, plus what the remaining buffers take when each is rounded up, is at most the pool's size. A cut moves
  the cursor by exactly what it takes from the rest (`NeedStep`, `CutFits`). At the start the sum is the total less 56576 bytes,
  which the rounding of the statistics area to 64 KiB adds. `PoolAssumption` keeps base plus total below the modulus, which a pool in
  32-bit memory has; below it no sum in `isp_malloc` wraps. The theorems are about the whole `IspSetup`: what follows the pool leaves it alone (`ThenKeeps`).
- *Registers.* `RegsInv`: from each function of `isp_init.c` on, its tables are in place, and nothing is enabled before the last. Every table is a few offsets and a few runs of words; `IsppPlace`, `IspfPlace`, `SizePlace` and the like bound them,
  and `TablesApart`, `BetweenTables` compare the bounds: no two functions share a register but the two of `Shared`, and neither the DMA addresses nor the control registers are in a table. What is written therefore stays (`StaysInPlace`).
- *Sensor.* `BusInv` and `ValueInv` are inductive together (`LibraryInductive`). `BusInv` adds to the descriptor count that an open device is at the
  default address, because `SetSensorFmt` alone leaves one open; so a probe that finds the device open still asks the address it reports. `ValueInv` adds that
  frame length is at least 1125 while nothing is lost, which keeps `v_cycle - 4` and `v_cycle - intt` from wrapping, and below 2^24, so that three bytes hold the shutter.
  The types (`TypesStep`) need that `GainIndex` is below 256: the entries of `gain_lut` below 1024 are multiples of 4 between 64 and 1020. `GainKept` needs no counting: for the least entry `x` that is not below
  a validated gain `c` (`LutCeiling`) the entries below `c` and below `x` are the same set. `ProbeMissesNone` needs `BusInv`: a device that is already open is at the first address, so the probe does ask there.
- *Driver.* `DriverInv` adds to the two properties that an open device is at an address a sensor may have, that nothing is open once the probe of an address is over, and that a sensor
  formatted without a lost transfer streams. `MainDrives` shows each step of `main` to be one of the driver's or a stutter, so the invariant holds of the whole program.
  `DriverAlwaysConfigures` adds what the values come to: the vendor's table has 64 first (`LowestGain`) and the subtractions of `set_intt` do not wrap at 2700 lines (`TenLines`).
- *Script.* `Script` is a concatenation of lists, each made once or for each channel, and the number of channels is arbitrary. The lemmas of the first half say for a list, for a list repeated and for
  two parts joined, what they contain (`Has`), avoid (`Avoids`), have in which order (`Ordered`), and that memory is given to the owner that was asked two calls before, with the reservation between (`Paired`).
  A late call is avoided by every part but its own, so an order within the part is one in the script (`IspOrder`, `ChannelOrder`, `ServerOrder`).
- *Program.* `Progress`: what is done is a beginning of the script, so what is done has everything done that comes before it (`DoneOrdered`), whatever was refused. `MemoryInv`: the zone in hand
  is the newest and of the size in hand, and no owner has it yet; with `Paired`, memory given is the owner's own. `Descriptors`: the server's socket is opened last and closed first.
  `OfferedStreamsFlow` and `DriversInOrder` follow from the three, and from `DriverInv` for the sensor.

Model-checked only: `WindowsSound`, since the search of `isp_win_param` and `Log2` are recursive functions and what they compute for every picture needs induction over data, and
everything under fairness (`RequestsAnswered`, `VideoArrives`, `WaitEnds`, `SignalEnds`), which the prover cannot treat. All other properties of the passing runs are proved.

## 6. Not modelled

- Text: parsing and formatting of requests, SDP, Base64, `crypt`, timestamps, SSRC values and payload bytes. Their outcomes are inputs.
- RTCP from peers is never read by the server on UDP; interleaved, it is the `NUL` input.
- Interleaved channel numbers change no control flow.
- Callbacks of the sensor library that only report or do nothing, and registers no property looks at.
- Hardware: what a register does beyond being set. The drivers are their return values.
- `fh_mpi.c`: wrappers that pass one ioctl on each. Only an archived test program uses it; `mini_streamer` makes the calls itself, and those are in `BringUp`.
- `majestic_bitrate.h`: floating point, which TLC and the provers do not have; its value is an attribute passed to the encoder.
- The values of the ISP's tables, bits that a read-modify-write keeps, and what the attributes of a channel are.
- A frame that is not H.264, and a reader of stdout that stops, are outside the loop's model.
- The other components marked not modelled in section 1: recordings, scripts, images, headers.

## 7. Plan

1. Done: `RtspServer`, `ClientView`, `StreamLoop`, `FuPacketizer`, `IspBufPool`, `IspWindow`, `IspSetup`, the sensor modules, `BringUp`, and the proofs above.
2. Done: proofs of every safety property but `WindowsSound`.
3. `MediaSession`: an abstract session (idle, ready, playing) that one slot of `RtspServer` implements, with the refinement proved.
4. An abstract sensor (connected, streaming, exposure within the frame) that both drivers implement.
