---------------------------- MODULE Cv2003Sensor ----------------------------
(***************************************************************************)
(* libcv2003_mipi.so (src/majestic/libcv2003_mipi.c): the callbacks that   *)
(* majestic's ISP library calls, in any order, each to its end.  Callbacks *)
(* that only report are operators or left out; no caller looks at the      *)
(* result of a transfer, so a lost one shows only in the sensor.           *)
(***************************************************************************)
EXTENDS Cv2003Chip, Cv2003Gain

CONSTANTS
    WordModulus,  \* 2^32 of uint32_t
    FrameHs,      \* frame heights asked for
    Intts,        \* integration times asked for
    Gains,        \* gains asked for
    Modes,        \* flip and mirror modes asked for
    AwbGains,     \* white balance gains, an arbitrary first one included
    NoAwbGain,    \* that first one
    Pokes         \* register writes through SetSensorReg

ShutterRange == 16777216  \* 24 bits

ASSUME SensorAssumption ==
    /\ Faults \in BOOLEAN
    /\ WordModulus \in Nat /\ WordModulus > ShutterRange
    /\ \A x \in FrameHs : x \in Nat /\ x < ShutterRange
    /\ \A x \in Intts \cup Gains : x \in Nat /\ x < WordModulus
    /\ Modes \subseteq 0 .. 3
    /\ NoAwbGain \in AwbGains
    /\ Pokes \subseteq Registers \X Byte

Word == 0 .. WordModulus - 1
Sub(a, b) == IF b <= a THEN a - b ELSE WordModulus + a - b
None == -1

VARIABLES
    dev,                \* g_fd with g_slave_addr
    v_cycle, exposure, gain,
    awb,                \* AwbGain
    ret,                \* what the last callback said, if it was Sensor_Isconnect
    sound,              \* since the last SetSensorFmt no transfer failed
    wanted, wantedGain  \* what the last SetIntt, SetGain should come to, see AdjustIntt

library == <<dev, v_cycle, exposure, gain, awb>>
history == <<ret, sound, wanted, wantedGain>>
sensorVars == <<site, chip, library, history>>

-----------------------------------------------------------------------------
SensorDevice_Close(d) ==
    IF d.open THEN [open |-> FALSE, held |-> d.held - 1, addr |-> d.addr] ELSE d

(* Variant: a device that is open is opened again. *)
SensorDevice_Init_Again(d, a) == Opened(d, a, a)
SensorDevice_Init(d, a) == IF d.open THEN {d} ELSE Opened(d, a, a)

(* The registers of the format's table the model has. *)
Table(format) ==
    [STANDBY |-> 0, GAIN_MODE |-> 16,
     VCYC_LO |-> IF format = 516 THEN 202 ELSE 140,
     VCYC_HI |-> IF format = 516 THEN 8 ELSE 10]

TableCycle(format) == IF format = 516 THEN 2250 ELSE 2700

(* One callback's writes, all but some of them lost. *)
Transfer(w) ==
    \E arrived \in Arriving(dev, DOMAIN w) :
        /\ chip' = Written(chip, w, arrived)
        /\ sound' = (sound /\ arrived = DOMAIN w)

SensorInit ==
    /\ site \in Sites /\ chip = PowerOn
    /\ dev = Closed /\ v_cycle = 2700 /\ exposure = 0 /\ gain = 64 /\ awb = NoAwbGain
    /\ ret = "none" /\ sound = FALSE /\ wanted = None /\ wantedGain = None

-----------------------------------------------------------------------------
(* Sensor_Isconnect: each address in turn; the device is closed after each *)
(* and on return, even when it was open before.                            *)

(* Variants: the first ID is enough; the device stays open for the next.   *)
Detected_ByPid1(pid1, pid2) == pid1 \in {2, 32}
Detected(pid1, pid2) == IsCv2003(pid1, pid2)
AfterProbe_Open(d) == d
AfterProbe(d) == SensorDevice_Close(d)

Found(a, d) ==
    /\ dev' = [AfterProbe(d) EXCEPT !.addr = a]
    /\ ret' = "found"

Sensor_Isconnect ==
    /\ \E d1 \in SensorDevice_Init(dev, 53) : \E p1 \in Pid1(d1), p2 \in Pid2(d1) :
          IF Detected(p1, p2) THEN Found(53, d1)
          ELSE \E d2 \in SensorDevice_Init(AfterProbe(d1), 54) :
               \E q1 \in Pid1(d2), q2 \in Pid2(d2) :
                  IF Detected(q1, q2) THEN Found(54, d2)
                  ELSE dev' = AfterProbe(d2) /\ ret' = "missing"
    /\ UNCHANGED <<site, chip, v_cycle, exposure, gain, awb, sound, wanted, wantedGain>>

-----------------------------------------------------------------------------
(* Sensor_Init, when it is called by itself. *)
Sensor_Init(format) ==
    /\ Transfer(Table(format))
    /\ v_cycle' = TableCycle(format)
    /\ ret' = "none" /\ wanted' = None
    /\ UNCHANGED <<site, dev, exposure, gain, awb, wantedGain>>

(* SetSensorFmt's two bytes, 0xFF for a read that failed. *)
ReadBack(hi, lo) == 256 * (hi % 256) + (lo % 256)

(* SetSensorFmt: Sensor_Init and the start of the stream on a device just  *)
(* opened, then the frame length read back.                                *)
SetSensorFmt(format) ==
    LET w == [r \in DOMAIN Table(format) \cup {"STREAM_EN"} |->
                 IF r = "STREAM_EN" THEN 1 ELSE Table(format)[r]]
    IN  \E d \in SensorDevice_Init(SensorDevice_Close(dev), DefaultAddr) :
        \E arrived \in Arriving(d, DOMAIN w) :
           LET c == Written(chip, w, arrived) IN
           \E lo \in Reading(d, c, "VCYC_LO"), hi \in Reading(d, c, "VCYC_HI") :
              /\ dev' = d /\ chip' = c
              /\ v_cycle' = ReadBack(hi, lo)
              /\ sound' = (arrived = DOMAIN w /\ NoAnswer \notin {lo, hi})
              /\ ret' = "none" /\ wanted' = None /\ wantedGain' = None
              /\ UNCHANGED <<site, exposure, gain, awb>>

(* Variant: standby without closing the device. *)
AfterDeInit_Open(d) == d
AfterDeInit(d) == SensorDevice_Close(d)

Sensor_DeInit ==
    /\ Transfer([STANDBY |-> 1])
    /\ dev' = AfterDeInit(dev)
    /\ ret' = "none"
    /\ UNCHANGED <<site, v_cycle, exposure, gain, awb, wanted, wantedGain>>

Sensor_Kick ==
    /\ Transfer([STREAM_EN |-> 1])
    /\ ret' = "none"
    /\ UNCHANGED <<site, library, wanted, wantedGain>>

(* A register of the caller's choice: all bets are off until the next format. *)
SetSensorReg(r, val) ==
    /\ \E arrived \in Arriving(dev, {r}) : chip' = Written(chip, [x \in {r} |-> val], arrived)
    /\ sound' = FALSE /\ ret' = "none"
    /\ UNCHANGED <<site, library, wanted, wantedGain>>

SetSensorFlipMirror(mode) ==
    /\ \E val \in Reading(dev, chip, "FLIP_MIRROR") :
       \E arrived \in Arriving(dev, {"FLIP_MIRROR"}) :
          /\ chip' = Written(chip,
                 [FLIP_MIRROR |-> 4 * ((val % 256) \div 4) + 2 * (mode % 2) + ((mode \div 2) % 2)],
                 arrived)
          /\ sound' = (sound /\ val # NoAnswer /\ arrived # {})
    /\ ret' = "none"
    /\ UNCHANGED <<site, library, wanted, wantedGain>>

SetSensorAwbGain(g) ==
    /\ awb' = g /\ ret' = "none"
    /\ UNCHANGED <<site, chip, dev, v_cycle, exposure, gain, sound, wanted, wantedGain>>

-----------------------------------------------------------------------------
(* Exposure and gain.  A caller sets any value (SetIntt, SetGain), or the  *)
(* one that the Calc callback makes of it (AdjustIntt, AdjustGain).        *)

LastLine == Sub(v_cycle, 4)

(* Variant: the limit of the format it started with. *)
CalcSnsValidIntt_First(i) == Least(i, 2696)
CalcSnsValidIntt(i) == Least(i, LastLine)

ShutterStart(i) == Least(Largest(Sub(v_cycle, i), 8), LastLine)

SetIntt(i, want) ==
    /\ LET val == ShutterStart(i)
       IN  Transfer([EXP_HI |-> (val \div 65536) % 256, EXP_MID |-> (val \div 256) % 256,
                     EXP_LO |-> val % 256])
    /\ exposure' = i /\ wanted' = want /\ ret' = "none"
    /\ UNCHANGED <<site, dev, v_cycle, gain, awb, wantedGain>>

AdjustIntt(i) == SetIntt(CalcSnsValidIntt(i), i)

GainBytes(g) ==
    [r \in {"GAIN_IDX", "GAIN_HI", "GAIN_LO"} \cup IF KeepsMode(g) THEN {} ELSE {"GAIN_MODE"} |->
        CASE r = "GAIN_IDX" -> GainIndex(g) [] r = "GAIN_HI" -> RegGain(g) \div 256
          [] r = "GAIN_LO" -> RegGain(g) % 256 [] r = "GAIN_MODE" -> GainMode(g)]

SetGain(g, want) ==
    /\ Transfer(GainBytes(g))
    /\ gain' = g /\ wantedGain' = want /\ ret' = "none"
    /\ UNCHANGED <<site, dev, v_cycle, exposure, awb, wanted>>

AdjustGain(g) == SetGain(CalcSnsValidGain(g), g)

(* Variants: the high byte is not masked; the low byte alone. *)
FrameBytes_NoMask(h) == [VCYC_HI |-> h \div 256, VCYC_LO |-> h % 256]
FrameBytes_LowOnly(h) == [VCYC_LO |-> h % 256]
FrameBytes(h) == [VCYC_HI |-> (h \div 256) % 256, VCYC_LO |-> h % 256]

SetSnsFrameH(asked) ==
    /\ LET frame_h == Largest(asked, 1125)
       IN  Transfer(FrameBytes(frame_h)) /\ v_cycle' = frame_h
    /\ ret' = "none" /\ wanted' = None
    /\ UNCHANGED <<site, dev, exposure, gain, awb, wantedGain>>

-----------------------------------------------------------------------------
SensorNext ==
    \/ Sensor_Isconnect
    \/ \E format \in {515, 516} : Sensor_Init(format) \/ SetSensorFmt(format)
    \/ Sensor_DeInit
    \/ Sensor_Kick
    \/ \E poke \in Pokes : SetSensorReg(poke[1], poke[2])
    \/ \E mode \in Modes : SetSensorFlipMirror(mode)
    \/ \E g \in AwbGains : SetSensorAwbGain(g)
    \/ \E i \in Intts : SetIntt(i, None) \/ AdjustIntt(i)
    \/ \E g \in Gains : SetGain(g, None) \/ AdjustGain(g)
    \/ \E h \in FrameHs : SetSnsFrameH(h)

SensorSpec == SensorInit /\ [][SensorNext]_sensorVars

-----------------------------------------------------------------------------
(* Properties. *)

(***************************************************************************)
(* Types.  exposure and gain are the callers' words, v_cycle never has     *)
(* more bits than the shutter register.                                    *)
(***************************************************************************)
SensorTypeOK ==
    /\ site \in Sites /\ chip \in [Registers -> Byte]
    /\ dev \in Device
    /\ v_cycle \in 0 .. ShutterRange - 1 /\ exposure \in Word /\ gain \in Word /\ awb \in AwbGains
    /\ ret \in {"none", "found", "missing"} /\ sound \in BOOLEAN
    /\ (wanted = None \/ wanted \in Word) /\ (wantedGain = None \/ wantedGain \in Word)

(***************************************************************************)
(* The library never has a descriptor of /dev/i2c-0 that it cannot close:  *)
(* what it holds is what g_fd names, in whatever order formats, probes and *)
(* closes come.                                                            *)
(***************************************************************************)
OneDescriptor == dev.held = IF dev.open THEN 1 ELSE 0

(***************************************************************************)
(* When Sensor_Isconnect says 1, a CV2003 is at g_slave_addr, even if      *)
(* transfers failed, another chip answers at one of the addresses or the   *)
(* device was open for another address.                                    *)
(***************************************************************************)
ProbeSound == ret = "found" => site[dev.addr] = "cv2003"

(***************************************************************************)
(* On a bus without faults Sensor_Isconnect misses no CV2003, whatever was *)
(* open before.                                                            *)
(***************************************************************************)
ProbeComplete == ret = "missing" /\ ~Faults => \A a \in Addr : site[a] # "cv2003"

(***************************************************************************)
(* As long as no transfer has failed since SetSensorFmt, g_v_cycle is the  *)
(* frame length of the sensor (its 16 bits of it), whichever of            *)
(* SetSensorFmt, Sensor_Init and SetSnsFrameH set it last.                 *)
(***************************************************************************)
FrameLengthAgrees == sound => FrameLength(chip) = v_cycle % 65536

(***************************************************************************)
(* A device that is open and has lost nothing since SetSensorFmt streams:  *)
(* Sensor_DeInit never leaves a sensor in standby behind an open device.   *)
(***************************************************************************)
StreamsWhileOpen == sound /\ dev.open => Streams(chip)

(***************************************************************************)
(* An integration time that went through CalcSnsValidIntt exposes for that *)
(* many lines, limited to 4 and to the frame length less 8: none is taken  *)
(* for a negative one, and a long one never comes out short.               *)
(***************************************************************************)
ExposureAsAsked ==
    sound /\ wanted # None =>
        v_cycle - Exposure(chip) = Largest(4, Least(wanted, v_cycle - 8))

(***************************************************************************)
(* A gain that went through CalcSnsValidGain selects the smallest entry of *)
(* gain_lut that is not below it (the largest entry beyond 1024), in the   *)
(* low gain mode, whatever was set before.                                 *)
(***************************************************************************)
GainAsAsked ==
    sound /\ wantedGain # None =>
        /\ chip.GAIN_MODE = 16
        /\ \E x \in GainLut :
              /\ chip.GAIN_IDX = Cardinality({y \in GainLut : y < x})
              /\ x >= Least(wantedGain, 1024)
              /\ \A y \in GainLut : y >= wantedGain => y >= x

(***************************************************************************)
(* libcv2003_mipi.c:424, "main init, write regs + start streaming", with   *)
(* README.md:1217: SetSensorFmt reopens the device at the address of the   *)
(* probe, so the sensor that was found is the one that is configured.      *)
(***************************************************************************)
FormatReachesFound ==
    [][\A format \in {515, 516} : ret = "found" /\ SetSensorFmt(format) => sound']_sensorVars

=============================================================================
