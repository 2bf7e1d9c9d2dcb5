---------------------------- MODULE Cv2003Driver ----------------------------
(***************************************************************************)
(* src/sdk/lib/cv2003_driver.c as main() of mini_streamer.c calls it:      *)
(* probe and open, set the format, close at the end.  A failure that a     *)
(* function reports ends the program; a failed transfer is not reported.   *)
(***************************************************************************)
EXTENDS Cv2003Chip, Cv2003Gain

CONSTANT WordModulus  \* 2^32 of uint32_t

ASSUME DriverAssumption ==
    /\ Faults \in BOOLEAN
    /\ WordModulus \in Nat /\ WordModulus > 16777216 /\ WordModulus % 16777216 = 0

VARIABLES
    phase,      \* "start", "ready" (opened), "formatted", "ended", or "failed"
    dev,        \* g_i2c_fd with g_i2c_addr
    g_v_cycle,
    probed,     \* the address where the probe found the sensor, or 0
    sound       \* no transfer of cv2003_set_format failed

driverVars == <<site, chip, phase, dev, g_v_cycle, probed, sound>>

-----------------------------------------------------------------------------
sensor_device_close(d) == IF d.open THEN [d EXCEPT !.open = FALSE, !.held = @ - 1] ELSE d

(* The device after sensor_device_init, and whether it says it succeeded.  *)
sensor_device_init(d, a) ==
    {i \in [dev : Opened(d, a, d.addr), ok : BOOLEAN] :
        (i.ok => i.dev.open) /\ (~i.ok => Faults)}

DriverInit ==
    /\ site \in Sites /\ chip = PowerOn
    /\ phase = "start" /\ dev = Closed /\ g_v_cycle = 0
    /\ probed = 0 /\ sound = FALSE

(* Variant: the second address is reported as the first. *)
ProbeAddr_First(k) == 53
ProbeAddr(k) == IF k = 1 THEN 53 ELSE 54

(* cv2003_init: the probe has found address a, or none (0). *)
Open(d, a) ==
    \E i \in sensor_device_init(d, IF a = 0 THEN DefaultAddr ELSE a) :
        /\ dev' = i.dev /\ probed' = a
        /\ phase' = IF i.ok THEN "ready" ELSE "failed"
        /\ UNCHANGED <<site, chip, g_v_cycle, sound>>

cv2003_init ==
    /\ phase = "start"
    /\ \E i1 \in sensor_device_init(dev, 53) : \E p1 \in Pid1(i1.dev), p2 \in Pid2(i1.dev) :
          LET d1 == sensor_device_close(i1.dev) IN
          IF IsCv2003(p1, p2) THEN Open(d1, ProbeAddr(1))
          ELSE \E i2 \in sensor_device_init(d1, 54) : \E q1 \in Pid1(i2.dev), q2 \in Pid2(i2.dev) :
                  Open(sensor_device_close(i2.dev), IF IsCv2003(q1, q2) THEN ProbeAddr(2) ELSE 0)

-----------------------------------------------------------------------------
(* The registers of SENSOR_CFG_1080P25 the model has, and the stream.      *)
Config == [STANDBY |-> 0, GAIN_MODE |-> 16, VCYC_LO |-> 140, VCYC_HI |-> 10, STREAM_EN |-> 1]

(* (uint32_t)v_hi << 8 | v_lo, where a failed read is 0xFFFF. *)
ReadBack(hi, lo) ==
    IF lo # NoAnswer THEN 256 * hi + lo ELSE IF hi = NoAnswer THEN 16777215 ELSE NoAnswer

(* set_intt(v_cycle / 2 - 5).  Variant: intt taken for lines. *)
Shutter_Lines(v) ==
    Least(Largest((v - ((v \div 2) - 5)) % WordModulus, 8), (v - 4) % WordModulus)
Shutter(v) ==
    Least(Largest((v - 2 * ((v \div 2) - 5)) % WordModulus, 8), (v - 4) % WordModulus)

(* set_intt, and set_gain(0x40). *)
ExposureAndGain(v) ==
    [EXP_HI |-> (Shutter(v) \div 65536) % 256, EXP_MID |-> (Shutter(v) \div 256) % 256,
     EXP_LO |-> Shutter(v) % 256,
     GAIN_MODE |-> 16, GAIN_IDX |-> TabIndex(64), GAIN_HI |-> 0, GAIN_LO |-> 64]

Configure(d) ==
    \E arrived \in Arriving(d, DOMAIN Config) :
        LET c == Written(chip, Config, arrived) IN
        \E hi \in Reading(d, c, "VCYC_HI"), lo \in Reading(d, c, "VCYC_LO") :
            LET w == ExposureAndGain(ReadBack(hi, lo)) IN
            \E after \in Arriving(d, DOMAIN w) :
                /\ chip' = Written(c, w, after)
                /\ g_v_cycle' = ReadBack(hi, lo)
                /\ sound' = (/\ arrived = DOMAIN Config /\ after = DOMAIN w
                             /\ NoAnswer \notin {hi, lo})

(* Variant: the device is not closed first. *)
Reopened_Held(d) == sensor_device_init(d, d.addr)
Reopened(d) == sensor_device_init(sensor_device_close(d), d.addr)

(* cv2003_set_format: reopening, mipi_init() or neither fails. *)
FormatFails ==
    /\ phase = "ready" /\ phase' = "failed"
    /\ \E i \in Reopened(dev) : dev' = i.dev
    /\ Faults
    /\ UNCHANGED <<site, chip, g_v_cycle, probed, sound>>

cv2003_set_format ==
    /\ phase = "ready" /\ phase' = "formatted"
    /\ \E i \in Reopened(dev) : i.ok /\ dev' = i.dev /\ Configure(i.dev)
    /\ UNCHANGED <<site, probed>>

cv2003_deinit ==
    /\ phase = "formatted" /\ phase' = "ended"
    /\ dev' = sensor_device_close(dev)
    /\ UNCHANGED <<site, chip, g_v_cycle, probed, sound>>

DriverNext == cv2003_init \/ cv2003_set_format \/ FormatFails \/ cv2003_deinit

DriverSpec == DriverInit /\ [][DriverNext]_driverVars

-----------------------------------------------------------------------------
(* Properties. *)

(***************************************************************************)
(* The bus is open at most once, also after a probe, a format or an open   *)
(* that failed half-way, and not at all at the end.                        *)
(***************************************************************************)
BusHeldOnce ==
    /\ dev.held = IF dev.open THEN 1 ELSE 0
    /\ phase \in {"start", "ended"} => ~dev.open

(***************************************************************************)
(* The sensor is configured at the address where the probe found it, and a *)
(* sensor found is there, whatever failed on the way.                      *)
(***************************************************************************)
ProbedIsConfigured ==
    probed # 0 =>
        /\ site[probed] = "cv2003"
        /\ phase \in {"ready", "formatted"} => dev.open /\ dev.addr = probed

(***************************************************************************)
(* When no transfer failed, cv2003_set_format leaves a streaming sensor,   *)
(* whose frame length the driver knows, exposing for all but 10 lines of a *)
(* frame in the lowest gain (sdk/tests/test_cv2003_bus.c).                 *)
(***************************************************************************)
DriverConfigures ==
    phase = "formatted" /\ sound =>
        /\ Streams(chip)
        /\ FrameLength(chip) = g_v_cycle /\ g_v_cycle = 2700
        /\ Exposure(chip) = 10
        /\ chip.GAIN_MODE = 16 /\ chip.GAIN_IDX = 0
=============================================================================
