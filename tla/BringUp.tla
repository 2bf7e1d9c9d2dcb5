------------------------------- MODULE BringUp ------------------------------
(***************************************************************************)
(* main() of src/majestic/mini_streamer.c from its first open() to its     *)
(* last close(), around the loop that StreamLoop specifies: the devices,   *)
(* the sensor (Cv2003Driver), vpss_setup, isp_setup, the encoder, the      *)
(* server.  Every call may be refused; main() then returns 1 and undoes    *)
(* nothing.  What the drivers keep is external.                            *)
(***************************************************************************)
EXTENDS Cv2003Driver, Sequences

CONSTANT Channel  \* VPSS_CHANNEL_COUNT: the channels are 0 .. Channel - 1

ASSUME ChannelAssumption == Channel \in Nat \ {0}

Channels == 0 .. Channel - 1
NoChannel == -1

(***************************************************************************)
(* The calls main() makes after the sensor's, in its order.                *)
(***************************************************************************)
Once(calls) == [i \in 1 .. Len(calls) |-> [call |-> calls[i], chan |-> NoChannel]]
EachChannel(calls) ==
    [i \in 1 .. Channel * Len(calls) |->
        [call |-> calls[((i - 1) % Len(calls)) + 1], chan |-> (i - 1) \div Len(calls)]]

vpss_setup ==
    Once(<<"VPSS_GET_SYS_SIZE", "vmm_alloc", "VPSS_SET_SYS_ADDR">>)
    \o EachChannel(<<"VPSS_GET_CHN_SIZE", "vmm_alloc", "VPSS_SET_CHN_ADDR">>)
    \o Once(<<"VPSS_SET_VI_ATTR", "VPSS_ENABLE">>)
    \o EachChannel(<<"VPSS_SET_CHN_ATTR">>)
    \o Once(<<"VPSS_OPEN_CHN">>)
    \o EachChannel(<<"VPSS_SET_VO_MODE">>)

isp_setup ==
    Once(<<"0x80086929", "0x80306926", "0x80786905", "0x40046908", "0x40046909",
           "isp_start", "0x4004690F",
           "isp_core_alloc_buf_addr", "isp_hw_init", "isp_start_processing", "0x6910">>)

venc_sys_init == Once(<<"VENC_SYS_GET_SIZE", "vmm_alloc", "VENC_SYS_SET_ADDR">>)

(* venc_chn_setup and venc_bind_and_start. Variant: bound before the       *)
(* configuration that makes the channel a media object.                    *)
venc_channel_BindFirst ==
    <<"VENC_QUERY_CHN_MEM", "vmm_alloc", "VENC_CREATE_CHN", "MEDIA_BIND",
      "VENC_SET_CHN_CONFIG", "VENC_SET_RC_ATTR", "VENC_START_RECV_PIC">>
venc_channel ==
    <<"VENC_QUERY_CHN_MEM", "vmm_alloc", "VENC_CREATE_CHN", "VENC_SET_CHN_CONFIG",
      "VENC_SET_RC_ATTR", "MEDIA_BIND", "VENC_START_RECV_PIC">>

Script ==
    vpss_setup \o isp_setup \o venc_sys_init \o EachChannel(venc_channel)
    \o Once(<<"rtsp_server_init">>)
    \o EachChannel(<<"rtsp_server_enable_stream">>)
    \o Once(<<"rtsp_server_on_idr_request">>)

(* The calls whose result main() ignores, and those that return none. *)
Ignored == {"0x80306926", "0x6910"}
CannotFail == {"isp_start_processing", "rtsp_server_enable_stream", "rtsp_server_on_idr_request"}

AsksSize == {"VPSS_GET_SYS_SIZE", "VPSS_GET_CHN_SIZE", "VENC_SYS_GET_SIZE", "VENC_QUERY_CHN_MEM"}
GivesMemory == {"VPSS_SET_SYS_ADDR", "VPSS_SET_CHN_ADDR", "VENC_SYS_SET_ADDR", "VENC_CREATE_CHN"}

(* Whose memory a call is about: one of vpu's or the encoder's, with its channel. *)
Owner(x) ==
    <<IF x.call \in {"VPSS_GET_SYS_SIZE", "VPSS_GET_CHN_SIZE", "VPSS_SET_SYS_ADDR",
                     "VPSS_SET_CHN_ADDR"} THEN "vpu" ELSE "venc", x.chan>>
Owners == {"vpu", "venc"} \X (Channels \cup {NoChannel})

(* Those main() insists on; it opens /dev/jpeg too and never looks at it. *)
Devices == {"mp", "isp", "enc", "vmm"}

(* What main() closes after the loop, in its order. *)
Closing == <<"rtsp", "sensor", "mem", "enc", "vmm", "isp", "mp">>

-----------------------------------------------------------------------------
NoOwner == <<"none", NoChannel>>
NoMemory == [zone |-> 0, size |-> NoOwner]

VARIABLES
    main,       \* where main() is, or how it returned: "stopped" (0), "failed" (1)
    at,         \* the entry of Script, or of Closing, to run next
    done,       \* the calls that succeeded
    size,       \* the size a driver asked for last (a value of its own per owner)
    ph,         \* the zone vmm_alloc returned last
    zones,      \* vmm.ko: the zones reserved, with their sizes
    mem,        \* the drivers: the memory each owner was given
    fds,        \* the descriptors open
    running,    \* g_running
    got         \* did the last turn of the loop have a frame?

mainVars == <<main, at, done, size, ph, zones, mem, fds, running, got>>
upVars == <<driverVars, mainVars>>

UpInit ==
    /\ DriverInit
    /\ main = "opening" /\ at = 1
    /\ done = {} /\ size = NoOwner /\ ph = 0
    /\ zones = <<>> /\ mem = [o \in Owners |-> NoMemory]
    /\ fds = {} /\ running = TRUE /\ got = FALSE

OpenDevices ==
    /\ main = "opening"
    /\ \E opened \in SUBSET Devices :
          /\ fds' = opened
          /\ main' = IF opened = Devices THEN "sensor" ELSE "failed"
    /\ UNCHANGED <<driverVars, at, done, size, ph, zones, mem, running, got>>

SetUpSensor ==
    /\ main = "sensor"
    /\ cv2003_init \/ cv2003_set_format \/ FormatFails
    /\ main' = CASE phase' = "failed" -> "failed"
                 [] phase' = "formatted" -> "setup"
                 [] OTHER -> "sensor"
    /\ UNCHANGED <<at, done, size, ph, zones, mem, fds, running, got>>

-----------------------------------------------------------------------------
(* The calls of Script. *)

Current == Script[at]

(* The call at hand succeeds, or its result does not matter. *)
Succeeds(calls) ==
    /\ main = "setup" /\ Current.call \in calls
    /\ done' = IF Current.call \in Ignored THEN done ELSE done \cup {Current}
    /\ at' = IF at = Len(Script) THEN 1 ELSE at + 1
    /\ main' = IF at = Len(Script) THEN "loop" ELSE "setup"
    /\ UNCHANGED <<driverVars, running, got>>

AskSize ==
    /\ Succeeds(AsksSize)
    /\ size' = Owner(Current)
    /\ UNCHANGED <<ph, zones, mem, fds>>

(* Variant: the address of the first zone is kept. *)
ReturnedZone_First(n) == 1
ReturnedZone(n) == n

vmm_alloc ==
    /\ Succeeds({"vmm_alloc"})
    /\ zones' = Append(zones, size)
    /\ ph' = ReturnedZone(Len(zones'))
    /\ UNCHANGED <<size, mem, fds>>

GiveMemory ==
    /\ Succeeds(GivesMemory)
    /\ mem' = [mem EXCEPT ![Owner(Current)] = [zone |-> ph, size |-> size]]
    /\ UNCHANGED <<size, ph, zones, fds>>

(* isp_hw_init keeps /dev/mem open: isp_ctx.mem_fd. *)
OpensDescriptor ==
    /\ Succeeds({"isp_hw_init", "rtsp_server_init"})
    /\ fds' = fds \cup {IF Current.call = "isp_hw_init" THEN "mem" ELSE "rtsp"}
    /\ UNCHANGED <<size, ph, zones, mem>>

PlainCall ==
    /\ Succeeds({x.call : x \in {Script[i] : i \in DOMAIN Script}}
                \ (AsksSize \cup GivesMemory
                   \cup {"vmm_alloc", "isp_hw_init", "rtsp_server_init"}))
    /\ UNCHANGED <<size, ph, zones, mem, fds>>

CallFails ==
    /\ main = "setup" /\ Current.call \notin Ignored \cup CannotFail
    /\ main' = "failed"
    /\ UNCHANGED <<driverVars, at, done, size, ph, zones, mem, fds, running, got>>

-----------------------------------------------------------------------------
(* The loop, and the way out of it. *)

(* Variant: a turn without a frame goes back without looking at g_running. *)
Leaves_AfterFrame == got /\ ~running
Leaves == ~running

LoopTop ==
    /\ main = "loop" /\ main' = IF Leaves THEN "closing" ELSE "turn"
    /\ UNCHANGED <<driverVars, at, done, size, ph, zones, mem, fds, running, got>>

(* rtsp_server_poll and venc_get_stream, with or without a frame (StreamLoop). *)
Turn ==
    /\ main = "turn" /\ main' = "loop"
    /\ got' \in BOOLEAN
    /\ UNCHANGED <<driverVars, at, done, size, ph, zones, mem, fds, running>>

CloseNext ==
    /\ main = "closing"
    /\ IF Closing[at] = "sensor" THEN cv2003_deinit ELSE UNCHANGED driverVars
    /\ fds' = fds \ {Closing[at]}
    /\ at' = at + 1
    /\ main' = IF at = Len(Closing) THEN "stopped" ELSE "closing"
    /\ UNCHANGED <<done, size, ph, zones, mem, running, got>>

(* SIGINT or SIGTERM, at any time. *)
Signal ==
    /\ main \notin {"stopped", "failed"} /\ running /\ running' = FALSE
    /\ UNCHANGED <<driverVars, main, at, done, size, ph, zones, mem, fds, got>>

MainNext ==
    \/ OpenDevices \/ SetUpSensor
    \/ AskSize \/ vmm_alloc \/ GiveMemory \/ OpensDescriptor \/ PlainCall
    \/ CallFails
    \/ LoopTop \/ Turn \/ CloseNext

UpNext == MainNext \/ Signal
UpSpec == UpInit /\ [][UpNext]_upVars

(* main() runs on: every call of it returns. *)
FairUpSpec == UpSpec /\ WF_upVars(MainNext)

-----------------------------------------------------------------------------
(* Properties. *)

Was(call, c) == [call |-> call, chan |-> c] \in done

(* The memory of owner o is a zone of its own, as large as o asked for.    *)
MemorySound(o) ==
    /\ mem[o] # NoMemory
    /\ mem[o].size = o /\ zones[mem[o].zone] = o
    /\ \A p \in Owners \ {o} : mem[p].zone # mem[o].zone

(***************************************************************************)
(* Whatever was refused on the way: a stream the server offers has every   *)
(* part of its way from the sensor, with memory of its own, and as long as *)
(* the server is there the devices it calls are open.                      *)
(***************************************************************************)
Flows(c) ==
    /\ MemorySound(<<"vpu", NoChannel>>) /\ MemorySound(<<"vpu", c>>)
    /\ MemorySound(<<"venc", NoChannel>>) /\ MemorySound(<<"venc", c>>)
    /\ \A call \in {"VPSS_SET_VI_ATTR", "VPSS_ENABLE", "VPSS_OPEN_CHN", "isp_start",
                    "isp_core_alloc_buf_addr", "isp_hw_init", "isp_start_processing"} :
          Was(call, NoChannel)
    /\ \A call \in {"VPSS_SET_CHN_ATTR", "VPSS_SET_VO_MODE", "VENC_SET_CHN_CONFIG",
                    "VENC_SET_RC_ATTR", "MEDIA_BIND", "VENC_START_RECV_PIC"} :
          Was(call, c)

OfferedStreamsFlow ==
    "rtsp" \in fds =>
        /\ Devices \cup {"mem"} \subseteq fds
        /\ phase = "formatted" /\ (sound => Streams(chip))
        /\ \A c \in Channels : Was("rtsp_server_enable_stream", c) => Flows(c)

(***************************************************************************)
(* The order the drivers ask for (VENC_PROTOCOL_V201.md, PORTING_GUIDE.md):*)
(* a channel is bound when it is a media object, receives when it is bound *)
(* and has rate control, and the ISP runs with buffers before its tables.  *)
(***************************************************************************)
DriversInOrder ==
    /\ \A c \in Channels :
          /\ Was("VENC_CREATE_CHN", c) => mem[<<"venc", NoChannel>>] # NoMemory
          /\ Was("MEDIA_BIND", c) => Was("VENC_SET_CHN_CONFIG", c) /\ Was("VPSS_SET_VO_MODE", c)
          /\ Was("VENC_START_RECV_PIC", c) => Was("MEDIA_BIND", c) /\ Was("VENC_SET_RC_ATTR", c)
    /\ Was("isp_hw_init", NoChannel) => Was("isp_core_alloc_buf_addr", NoChannel)
    /\ Was("isp_start_processing", NoChannel) =>
          Was("isp_hw_init", NoChannel) /\ Was("isp_start", NoChannel)

(* A signal ends the program, whenever it comes: in the middle of the      *)
(* bring-up or while no frame arrives.                                     *)
SignalEnds == ~running ~> main \in {"stopped", "failed"}
=============================================================================
