---------------------------- MODULE BringUpProofs ---------------------------
(***************************************************************************)
(* What main() keeps for every number of channels, wherever the sensor is  *)
(* and whatever is refused: the sensor bus, and what the sensor is         *)
(* configured to.                                                          *)
(***************************************************************************)
EXTENDS BringUp, TLAPS

(***************************************************************************)
(* The sensor.  A probe that answers like a CV2003 was sent to a device    *)
(* that is open, at the address asked for.                                 *)
(***************************************************************************)
DriverInv ==
    /\ site \in Sites /\ dev \in Device /\ probed \in Addr \cup {0}
    /\ sound \in BOOLEAN
    /\ BusHeldOnce /\ ProbedIsConfigured
    /\ phase \in {"ready", "formatted"} => dev.open /\ dev.addr \in Addr
    /\ phase = "formatted" /\ sound => Streams(chip)

HeldOnce(d) == d.held = IF d.open THEN 1 ELSE 0

(* Closing gives back the one descriptor.                                  *)
LEMMA CloseLeavesNone ==
    ASSUME NEW d \in Device, HeldOnce(d)
    PROVE  /\ sensor_device_close(d) = [open |-> FALSE, held |-> 0, addr |-> d.addr]
           /\ sensor_device_close(d) \in Device
<1>1. d = [open |-> d.open, held |-> d.held, addr |-> d.addr] /\ d.open \in BOOLEAN
      /\ d.addr \in Addr \cup {0}
  BY DEF Device
<1>2. CASE d.open
  <2>1. d.held = 1
    BY <1>2 DEF HeldOnce
  <2>2. sensor_device_close(d) = [open |-> FALSE, held |-> 0, addr |-> d.addr]
    <3>1. 1 - 1 = 0
      OBVIOUS
    <3> QED
      BY <1>1, <1>2, <2>1, <3>1, Zenon DEF sensor_device_close
  <2> QED
    BY <1>1, <2>2 DEF Device
<1>3. CASE ~d.open
  BY <1>1, <1>3, SMT DEF sensor_device_close, Device, HeldOnce
<1> QED
  BY <1>1, <1>2, <1>3

(* Opening a closed device holds at most one, at the address asked for.    *)
LEMMA InitHoldsOne ==
    ASSUME NEW d \in Device, ~d.open, d.held = 0, NEW a \in Addr,
           NEW i \in sensor_device_init(d, a)
    PROVE  /\ i.dev \in Device /\ HeldOnce(i.dev)
           /\ i.dev.open => i.dev.addr = a
           /\ i.ok => i.dev.open
<1>1. i.dev \in Opened(d, a, d.addr) /\ (i.ok => i.dev.open)
  BY DEF sensor_device_init
<1>2. i.dev \in {[open |-> TRUE, held |-> 1, addr |-> a],
                 [open |-> FALSE, held |-> 0, addr |-> d.addr]}
  BY <1>1 DEF Opened
<1>3. d.addr \in Addr \cup {0}
  BY DEF Device
<1>4. CASE i.dev = [open |-> TRUE, held |-> 1, addr |-> a]
  BY <1>1, <1>4 DEF Device, HeldOnce
<1>5. CASE i.dev = [open |-> FALSE, held |-> 0, addr |-> d.addr]
  BY <1>1, <1>3, <1>5 DEF Device, HeldOnce
<1> QED
  BY <1>2, <1>4, <1>5

(* A CV2003 is heard only where it is.                                     *)
LEMMA HeardIsThere ==
    ASSUME NEW d \in Device, NEW p1 \in Pid1(d), NEW p2 \in Pid2(d), IsCv2003(p1, p2)
    PROVE  d.open /\ d.addr \in Addr /\ site[d.addr] = "cv2003"
<1>1. p2 = 3
  BY DEF IsCv2003
<1>2. At(d) = "cv2003"
  BY <1>1 DEF Pid2, Heard, NoAnswer
<1> QED
  BY <1>2 DEF At

(* The device opened for the address found, or for the default one.        *)
LEMMA OpenKeeps ==
    ASSUME site \in Sites, NEW d \in Device, ~d.open, d.held = 0,
           NEW a \in Addr \cup {0}, a # 0 => site[a] = "cv2003",
           sound \in BOOLEAN, Open(d, a)
    PROVE  DriverInv'
<1> DEFINE at1 == IF a = 0 THEN DefaultAddr ELSE a
<1>1. PICK i \in sensor_device_init(d, at1) :
         /\ dev' = i.dev /\ probed' = a
         /\ phase' = IF i.ok THEN "ready" ELSE "failed"
         /\ UNCHANGED <<site, chip, g_v_cycle, sound>>
  BY DEF Open
<1>2. at1 \in Addr
  BY DEF DefaultAddr, Addr
<1>3. /\ dev' \in Device /\ HeldOnce(dev') /\ (dev'.open => dev'.addr = at1)
      /\ (i.ok => dev'.open)
  BY <1>1, <1>2, InitHoldsOne
<1>4. phase' \in {"ready", "failed"} /\ (phase' = "ready" => dev'.open)
  BY <1>1, <1>3
<1>5. BusHeldOnce'
  BY <1>3, <1>4 DEF BusHeldOnce, HeldOnce
<1>6. ProbedIsConfigured'
  BY <1>1, <1>3, <1>4 DEF ProbedIsConfigured
<1> QED
  BY <1>1, <1>2, <1>3, <1>4, <1>5, <1>6 DEF DriverInv

(* The probe at both addresses, each closed again, and the open after it.  *)
LEMMA ProbeKeeps ==
    ASSUME DriverInv, cv2003_init
    PROVE  DriverInv'
<1>1. /\ site \in Sites /\ sound \in BOOLEAN /\ dev \in Device /\ ~dev.open /\ dev.held = 0
      /\ 53 \in Addr /\ 54 \in Addr
  BY DEF DriverInv, cv2003_init, BusHeldOnce, Addr
<1>2. PICK i1 \in sensor_device_init(dev, 53) : \E p1 \in Pid1(i1.dev), p2 \in Pid2(i1.dev) :
          LET d1 == sensor_device_close(i1.dev) IN
          IF IsCv2003(p1, p2) THEN Open(d1, ProbeAddr(1))
          ELSE \E i2 \in sensor_device_init(d1, 54) : \E q1 \in Pid1(i2.dev), q2 \in Pid2(i2.dev) :
                  Open(sensor_device_close(i2.dev), IF IsCv2003(q1, q2) THEN ProbeAddr(2) ELSE 0)
  BY DEF cv2003_init
<1> DEFINE d1 == sensor_device_close(i1.dev)
<1>3. i1.dev \in Device /\ HeldOnce(i1.dev) /\ (i1.dev.open => i1.dev.addr = 53)
  BY <1>1, InitHoldsOne
<1>4. d1 \in Device /\ ~d1.open /\ d1.held = 0
  <2>1. d1 = [open |-> FALSE, held |-> 0, addr |-> i1.dev.addr] /\ d1 \in Device
    BY <1>3, CloseLeavesNone
  <2> QED
    BY <2>1
<1>5. PICK p1 \in Pid1(i1.dev), p2 \in Pid2(i1.dev) :
          IF IsCv2003(p1, p2) THEN Open(d1, ProbeAddr(1))
          ELSE \E i2 \in sensor_device_init(d1, 54) : \E q1 \in Pid1(i2.dev), q2 \in Pid2(i2.dev) :
                  Open(sensor_device_close(i2.dev), IF IsCv2003(q1, q2) THEN ProbeAddr(2) ELSE 0)
  BY <1>2
<1>6. CASE IsCv2003(p1, p2)
  <2>1. site[53] = "cv2003"
    BY <1>3, <1>6, HeardIsThere
  <2>2. Open(d1, 53)
    BY <1>5, <1>6 DEF ProbeAddr
  <2> HIDE DEF d1
  <2> QED
    BY <1>1, <1>4, <2>1, <2>2, OpenKeeps
<1>7. CASE ~IsCv2003(p1, p2)
  <2>1. PICK i2 \in sensor_device_init(d1, 54) : \E q1 \in Pid1(i2.dev), q2 \in Pid2(i2.dev) :
           Open(sensor_device_close(i2.dev), IF IsCv2003(q1, q2) THEN ProbeAddr(2) ELSE 0)
    BY <1>5, <1>7
  <2>2. PICK q1 \in Pid1(i2.dev), q2 \in Pid2(i2.dev) :
           Open(sensor_device_close(i2.dev), IF IsCv2003(q1, q2) THEN ProbeAddr(2) ELSE 0)
    BY <2>1
  <2> DEFINE d2 == sensor_device_close(i2.dev)
             a == IF IsCv2003(q1, q2) THEN ProbeAddr(2) ELSE 0
  <2> HIDE DEF d1
  <2>3. i2.dev \in Device /\ HeldOnce(i2.dev) /\ (i2.dev.open => i2.dev.addr = 54)
    BY <1>1, <1>4, InitHoldsOne
  <2>4. d2 \in Device /\ ~d2.open /\ d2.held = 0
    <3>1. d2 = [open |-> FALSE, held |-> 0, addr |-> i2.dev.addr] /\ d2 \in Device
      BY <2>3, CloseLeavesNone
    <3> QED
      BY <3>1
  <2>5. a \in Addr \cup {0} /\ (a # 0 => site[a] = "cv2003")
    BY <1>1, <2>3, HeardIsThere DEF ProbeAddr
  <2>6. Open(d2, a)
    BY <2>2
  <2> HIDE DEF d2, a
  <2> QED
    BY <1>1, <2>4, <2>5, <2>6, OpenKeeps
<1> QED
  BY <1>5, <1>6, <1>7

(* Reopening, at the address the device has.                               *)
LEMMA ReopenKeeps ==
    ASSUME DriverInv, phase = "ready", NEW i \in Reopened(dev)
    PROVE  /\ i.dev \in Device /\ HeldOnce(i.dev)
           /\ i.dev.open => i.dev.addr = dev.addr
           /\ i.ok => i.dev.open
<1> DEFINE d == sensor_device_close(dev)
<1>1. dev \in Device /\ HeldOnce(dev) /\ dev.addr \in Addr
  BY DEF DriverInv, BusHeldOnce, HeldOnce
<1>2. d = [open |-> FALSE, held |-> 0, addr |-> dev.addr] /\ d \in Device
  BY <1>1, CloseLeavesNone
<1>3. ~d.open /\ d.held = 0
  BY <1>2
<1>4. i \in sensor_device_init(d, dev.addr)
  BY DEF Reopened
<1> HIDE DEF d
<1> QED
  BY <1>1, <1>2, <1>3, <1>4, InitHoldsOne

(* A configuration that arrives whole leaves the sensor streaming: the     *)
(* exposure and the gain written after it touch neither register.          *)
LEMMA ConfigureStreams ==
    ASSUME NEW d, Configure(d)
    PROVE  sound' \in BOOLEAN /\ (sound' => Streams(chip'))
<1>1. PICK arrived \in Arriving(d, DOMAIN Config) :
        LET c == Written(chip, Config, arrived) IN
        \E hi \in Reading(d, c, "VCYC_HI"), lo \in Reading(d, c, "VCYC_LO") :
            LET w == ExposureAndGain(ReadBack(hi, lo)) IN
            \E after \in Arriving(d, DOMAIN w) :
                /\ chip' = Written(c, w, after)
                /\ g_v_cycle' = ReadBack(hi, lo)
                /\ sound' = (/\ arrived = DOMAIN Config /\ after = DOMAIN w
                             /\ NoAnswer \notin {hi, lo})
  BY DEF Configure
<1> DEFINE c == Written(chip, Config, arrived)
<1>2. PICK hi \in Reading(d, c, "VCYC_HI"), lo \in Reading(d, c, "VCYC_LO") :
            LET w == ExposureAndGain(ReadBack(hi, lo)) IN
            \E after \in Arriving(d, DOMAIN w) :
                /\ chip' = Written(c, w, after)
                /\ g_v_cycle' = ReadBack(hi, lo)
                /\ sound' = (/\ arrived = DOMAIN Config /\ after = DOMAIN w
                             /\ NoAnswer \notin {hi, lo})
  BY <1>1
<1> DEFINE w == ExposureAndGain(ReadBack(hi, lo))
<1>3. PICK after \in Arriving(d, DOMAIN w) :
                /\ chip' = Written(c, w, after)
                /\ sound' = (/\ arrived = DOMAIN Config /\ after = DOMAIN w
                             /\ NoAnswer \notin {hi, lo})
  BY <1>2
<1>4. SUFFICES ASSUME sound' PROVE Streams(chip')
  BY <1>3
<1>5. arrived = DOMAIN Config /\ after = DOMAIN w
  BY <1>3, <1>4
<1>6. DOMAIN Config = {"STANDBY", "GAIN_MODE", "VCYC_LO", "VCYC_HI", "STREAM_EN"}
      /\ Config.STANDBY = 0 /\ Config.STREAM_EN = 1
  BY DEF Config
<1>7. DOMAIN w = {"EXP_HI", "EXP_MID", "EXP_LO", "GAIN_MODE", "GAIN_IDX", "GAIN_HI", "GAIN_LO"}
  BY DEF ExposureAndGain
<1>8. c.STANDBY = 0 /\ c.STREAM_EN = 1
  BY <1>5, <1>6 DEF Written, Registers
<1> HIDE DEF c, w
<1> QED
  BY <1>3, <1>5, <1>7, <1>8 DEF Written, Registers, Streams

(* Each step of the driver keeps the invariant.                            *)
LEMMA DriverStep ==
    ASSUME DriverInv, [DriverNext]_driverVars
    PROVE  DriverInv'
<1>1. CASE cv2003_init
  BY <1>1, ProbeKeeps
<1>2. CASE cv2003_set_format
  <2>1. PICK i \in Reopened(dev) : i.ok /\ dev' = i.dev /\ Configure(i.dev)
    BY <1>2 DEF cv2003_set_format
  <2>2. /\ phase = "ready" /\ phase' = "formatted" /\ site' = site /\ probed' = probed
    BY <1>2 DEF cv2003_set_format
  <2>3. dev' \in Device /\ HeldOnce(dev') /\ dev'.open /\ dev'.addr = dev.addr
    BY <2>1, <2>2, ReopenKeeps
  <2>4. sound' \in BOOLEAN /\ (sound' => Streams(chip'))
    BY <2>1, ConfigureStreams
  <2>5. (dev.addr \in Addr) /\ (probed # 0 => site[probed] = "cv2003" /\ dev.addr = probed)
    BY <2>2 DEF DriverInv, ProbedIsConfigured
  <2>6. BusHeldOnce' /\ ProbedIsConfigured'
    BY <2>2, <2>3, <2>5 DEF BusHeldOnce, HeldOnce, ProbedIsConfigured
  <2> QED
    BY <2>2, <2>3, <2>4, <2>5, <2>6 DEF DriverInv
<1>3. CASE FormatFails
  <2>1. PICK i \in Reopened(dev) : dev' = i.dev
    BY <1>3 DEF FormatFails
  <2>2. phase = "ready" /\ phase' = "failed" /\ UNCHANGED <<site, chip, g_v_cycle, probed, sound>>
    BY <1>3 DEF FormatFails
  <2>3. dev' \in Device /\ HeldOnce(dev')
    BY <2>1, <2>2, ReopenKeeps
  <2> QED
    BY <2>2, <2>3 DEF DriverInv, BusHeldOnce, HeldOnce, ProbedIsConfigured
<1>4. CASE cv2003_deinit
  <2>1. /\ phase' = "ended" /\ dev' = sensor_device_close(dev)
        /\ UNCHANGED <<site, chip, g_v_cycle, probed, sound>>
    BY <1>4 DEF cv2003_deinit
  <2>2. dev \in Device /\ HeldOnce(dev)
    BY DEF DriverInv, BusHeldOnce, HeldOnce
  <2>3. dev' = [open |-> FALSE, held |-> 0, addr |-> dev.addr] /\ dev' \in Device
    BY <2>1, <2>2, CloseLeavesNone
  <2> QED
    BY <2>1, <2>3 DEF DriverInv, BusHeldOnce, ProbedIsConfigured
<1>5. CASE UNCHANGED driverVars
  BY <1>5 DEF driverVars, DriverInv, BusHeldOnce, ProbedIsConfigured
<1> QED
  BY <1>1, <1>2, <1>3, <1>4, <1>5 DEF DriverNext

(* Nothing is open and nothing probed when main() begins.                 *)
LEMMA DriverStart ==
    ASSUME DriverInit
    PROVE  DriverInv
<1>1. /\ site \in Sites /\ phase = "start" /\ probed = 0 /\ sound = FALSE
      /\ dev = [open |-> FALSE, held |-> 0, addr |-> 0]
  BY DEF DriverInit, Closed
<1>2. dev \in Device /\ dev.held = 0 /\ ~dev.open
  BY <1>1 DEF Device
<1> QED
  BY <1>1, <1>2 DEF DriverInv, BusHeldOnce, ProbedIsConfigured

(***************************************************************************)
(* main() uses the driver as Cv2003Driver has it: a step of main() is one  *)
(* of the driver's, or leaves the sensor alone.                            *)
(***************************************************************************)
LEMMA MainDrives ==
    [UpNext]_upVars => [DriverNext]_driverVars
BY DEF UpNext, MainNext, upVars, driverVars, DriverNext, OpenDevices, SetUpSensor, Succeeds,
       AskSize, vmm_alloc, GiveMemory, OpensDescriptor, PlainCall, CallFails, LoopTop, Turn,
       CloseNext, Signal

(* The whole program's steps are the driver's.                             *)
THEOREM UpDrivesSensor == UpSpec => DriverSpec
<1>1. UpInit => DriverInit
  BY DEF UpInit
<1> QED
  BY <1>1, MainDrives, PTL DEF UpSpec, DriverSpec

(* The driver's invariant holds of the whole program.                      *)
LEMMA DriverInductive == UpSpec => []DriverInv
BY DriverStart, DriverStep, UpDrivesSensor, PTL DEF DriverSpec

(***************************************************************************)
(* The bus is held once at most, and not when main() has closed the        *)
(* sensor, whatever was refused and wherever the sensor is.                *)
(***************************************************************************)
THEOREM BusNeverHeldTwice == UpSpec => []BusHeldOnce
<1>1. DriverInv => BusHeldOnce
  BY DEF DriverInv
<1> QED
  BY <1>1, DriverInductive, PTL

(***************************************************************************)
(* The sensor the probe found is there, and is the one configured.         *)
(***************************************************************************)
THEOREM ProbedAlwaysConfigured == UpSpec => []ProbedIsConfigured
<1>1. DriverInv => ProbedIsConfigured
  BY DEF DriverInv
<1> QED
  BY <1>1, DriverInductive, PTL

-----------------------------------------------------------------------------
(* What the configuration comes to.                                        *)

(* The lowest gain is the first entry of the vendor's table.               *)
LEMMA LowestGain == TabIndex(64) = 0
<1> DEFINE between == {k \in 0 .. 248 : /\ TAB_SENSOR_REG_TO_GAIN[k] <= 64
                                        /\ 64 <= TAB_SENSOR_REG_TO_GAIN[k + 1]}
<1>1. 16384 \div 256 = 64 /\ 16384 \div 255 = 64
  BY SMT
<1>2. TAB_SENSOR_REG_TO_GAIN[0] = 64 /\ TAB_SENSOR_REG_TO_GAIN[1] = 64
  <2>1. 256 - 0 = 256 /\ 256 - 1 = 255 /\ 0 \in 0 .. 249 /\ 1 \in 0 .. 249
    OBVIOUS
  <2> QED
    BY <1>1, <2>1 DEF TAB_SENSOR_REG_TO_GAIN
<1>3. 0 \in between
  BY <1>2
<1>4. between \subseteq Nat
  OBVIOUS
<1> HIDE DEF between
<1>5. \A x \in between : (\A y \in between : x <= y) <=> x = 0
  BY <1>3, <1>4
<1>6. Min(between) = 0
  BY <1>3, <1>5 DEF Min
<1>7. TabIndex(64) = IF between = {} THEN 249 ELSE Min(between)
  BY DEF TabIndex, between
<1> QED
  BY <1>3, <1>6, <1>7

(* Half of the frame's lines less five, doubled, leave ten.                *)
LEMMA TenLines == Shutter(2700) = 10
<1>1. WordModulus \in Nat /\ WordModulus > 16777216
  BY DriverAssumption
<1>2. 2700 \div 2 = 1350
  BY SMT
<1>3. 2700 - 2 * (1350 - 5) = 10 /\ 2700 - 4 = 2696
  BY SMT
<1>4. 10 % WordModulus = 10 /\ 2696 % WordModulus = 2696
  BY <1>1, SMT
<1> QED
  BY <1>2, <1>3, <1>4 DEF Shutter, Least, Largest

(* A configuration that loses nothing is the one of the vendor's table.    *)
LEMMA ConfigureAgrees ==
    ASSUME NEW d, Configure(d), sound'
    PROVE  /\ FrameLength(chip') = 2700 /\ g_v_cycle' = 2700
           /\ Exposure(chip') = 10
           /\ chip'.GAIN_MODE = 16 /\ chip'.GAIN_IDX = 0
<1>1. PICK arrived \in Arriving(d, DOMAIN Config) :
        LET c == Written(chip, Config, arrived) IN
        \E hi \in Reading(d, c, "VCYC_HI"), lo \in Reading(d, c, "VCYC_LO") :
            LET w == ExposureAndGain(ReadBack(hi, lo)) IN
            \E after \in Arriving(d, DOMAIN w) :
                /\ chip' = Written(c, w, after)
                /\ g_v_cycle' = ReadBack(hi, lo)
                /\ sound' = (/\ arrived = DOMAIN Config /\ after = DOMAIN w
                             /\ NoAnswer \notin {hi, lo})
  BY DEF Configure
<1> DEFINE c == Written(chip, Config, arrived)
<1>2. PICK hi \in Reading(d, c, "VCYC_HI"), lo \in Reading(d, c, "VCYC_LO") :
            LET w == ExposureAndGain(ReadBack(hi, lo)) IN
            \E after \in Arriving(d, DOMAIN w) :
                /\ chip' = Written(c, w, after)
                /\ g_v_cycle' = ReadBack(hi, lo)
                /\ sound' = (/\ arrived = DOMAIN Config /\ after = DOMAIN w
                             /\ NoAnswer \notin {hi, lo})
  BY <1>1
<1> DEFINE w == ExposureAndGain(ReadBack(hi, lo))
<1>3. PICK after \in Arriving(d, DOMAIN w) :
                /\ chip' = Written(c, w, after)
                /\ g_v_cycle' = ReadBack(hi, lo)
                /\ sound' = (/\ arrived = DOMAIN Config /\ after = DOMAIN w
                             /\ NoAnswer \notin {hi, lo})
  BY <1>2
<1>4. arrived = DOMAIN Config /\ after = DOMAIN w /\ hi # NoAnswer /\ lo # NoAnswer
  BY <1>3
<1>5. DOMAIN Config = {"STANDBY", "GAIN_MODE", "VCYC_LO", "VCYC_HI", "STREAM_EN"}
      /\ Config.VCYC_LO = 140 /\ Config.VCYC_HI = 10
  BY DEF Config
<1>6. c["VCYC_LO"] = 140 /\ c["VCYC_HI"] = 10
  BY <1>4, <1>5 DEF Written, Registers
<1>7. At(d) = "cv2003"
  BY <1>1, <1>4, <1>5 DEF Arriving
<1>8. hi = 10 /\ lo = 140
  BY <1>2, <1>4, <1>6, <1>7 DEF Reading, Heard
<1>9. ReadBack(hi, lo) = 2700
  BY <1>4, <1>8 DEF ReadBack
<1>10. /\ 10 \div 65536 = 0 /\ 10 \div 256 = 0 /\ 0 % 256 = 0 /\ 10 % 256 = 10
  BY SMT
<1>11. DOMAIN w = {"EXP_HI", "EXP_MID", "EXP_LO", "GAIN_MODE", "GAIN_IDX", "GAIN_HI", "GAIN_LO"}
       /\ w.EXP_HI = 0 /\ w.EXP_MID = 0 /\ w.EXP_LO = 10 /\ w.GAIN_MODE = 16 /\ w.GAIN_IDX = 0
  BY <1>9, <1>10, TenLines, LowestGain DEF ExposureAndGain
<1> HIDE DEF c, w
<1>12. /\ chip'.VCYC_LO = 140 /\ chip'.VCYC_HI = 10
       /\ chip'.EXP_HI = 0 /\ chip'.EXP_MID = 0 /\ chip'.EXP_LO = 10
       /\ chip'.GAIN_MODE = 16 /\ chip'.GAIN_IDX = 0
  BY <1>3, <1>4, <1>6, <1>11 DEF Written, Registers
<1> QED
  BY <1>3, <1>9, <1>12 DEF FrameLength, Exposure

LEMMA ConfigureStep ==
    ASSUME DriverInv, DriverConfigures, [DriverNext]_driverVars
    PROVE  DriverConfigures'
<1>1. CASE cv2003_init
  <2>1. phase' \in {"ready", "failed"}
    BY <1>1 DEF cv2003_init, Open
  <2> QED
    BY <2>1 DEF DriverConfigures
<1>2. CASE cv2003_set_format
  <2>1. PICK d : Configure(d)
    BY <1>2 DEF cv2003_set_format
  <2> QED
    BY <2>1, ConfigureStreams, ConfigureAgrees DEF DriverConfigures
<1>3. CASE FormatFails
  BY <1>3 DEF FormatFails, DriverConfigures
<1>4. CASE cv2003_deinit
  BY <1>4 DEF cv2003_deinit, DriverConfigures
<1>5. CASE UNCHANGED driverVars
  BY <1>5 DEF driverVars, DriverConfigures
<1> QED
  BY <1>1, <1>2, <1>3, <1>4, <1>5 DEF DriverNext

(***************************************************************************)
(* When no transfer failed, cv2003_set_format leaves a streaming sensor of *)
(* 2700 lines, exposing for all but 10 of them in the lowest gain: the     *)
(* unsigned arithmetic of set_intt and the search of the vendor's gain     *)
(* table come to that.                                                     *)
(***************************************************************************)
THEOREM DriverAlwaysConfigures == UpSpec => []DriverConfigures
<1>1. DriverInit => DriverConfigures
  BY DEF DriverInit, DriverConfigures
<1>2. DriverInv /\ DriverConfigures /\ [DriverNext]_driverVars => DriverConfigures'
  BY ConfigureStep
<1> QED
  BY <1>1, <1>2, DriverInductive, UpDrivesSensor, PTL DEF DriverSpec
=============================================================================
