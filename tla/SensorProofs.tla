---------------------------- MODULE SensorProofs ----------------------------
(***************************************************************************)
(* What majestic's sensor library keeps for every order of its callbacks,  *)
(* every value and every failure of open() or of a transfer.               *)
(*                                                                         *)
(* The bus: an open device is at the default address, for SetSensorFmt     *)
(* alone leaves it open.  The sensor: once a format has arrived whole,     *)
(* frame length, stream and shutter follow the library's variables until a *)
(* transfer is lost.                                                       *)
(***************************************************************************)
EXTENDS Cv2003Sensor, FiniteSetTheorems, TLAPS

BusInv ==
    /\ site \in Sites
    /\ dev \in Device
    /\ OneDescriptor
    /\ dev.open => dev.addr = DefaultAddr
    /\ ProbeSound

ValueInv ==
    /\ chip.VCYC_LO \in Byte /\ chip.VCYC_HI \in Byte
    /\ v_cycle \in Nat /\ v_cycle < ShutterRange
    /\ wanted = None \/ wanted \in Nat
    /\ sound \in BOOLEAN
    /\ sound => v_cycle >= 1125
    /\ FrameLengthAgrees /\ StreamsWhileOpen /\ ExposureAsAsked

-----------------------------------------------------------------------------
(* Bytes.                                                                  *)

(* A number is its low byte and the rest.                                  *)
LEMMA LowByte ==
    ASSUME NEW n \in Nat
    PROVE  /\ n \div 256 \in Nat /\ n % 256 \in Byte
           /\ n = 256 * (n \div 256) + (n % 256)
BY SMT DEF Byte

(* Two bytes hold a number modulo 2^16.                                    *)
LEMMA TwoBytes ==
    ASSUME NEW n \in Nat
    PROVE  256 * ((n \div 256) % 256) + (n % 256) = n % 65536
BY SMT

(* Three bytes hold a number below 2^24.                                   *)
LEMMA ThreeBytes ==
    ASSUME NEW n \in Nat, n < ShutterRange
    PROVE  65536 * ((n \div 65536) % 256) + 256 * ((n \div 256) % 256) + (n % 256) = n
BY SMT DEF ShutterRange

-----------------------------------------------------------------------------
(* The bus.                                                                *)

(* Opening and closing keep the count of descriptors.                      *)
LEMMA CloseKeeps ==
    ASSUME NEW d \in Device, d.held = IF d.open THEN 1 ELSE 0
    PROVE  /\ SensorDevice_Close(d) = [open |-> FALSE, held |-> 0, addr |-> d.addr]
           /\ SensorDevice_Close(d) \in Device
<1>1. d = [open |-> d.open, held |-> d.held, addr |-> d.addr] /\ d.open \in BOOLEAN
      /\ d.addr \in Addr \cup {0}
  BY DEF Device
<1>2. CASE d.open
  BY <1>1, <1>2 DEF SensorDevice_Close, Device
<1>3. CASE ~d.open
  BY <1>1, <1>3, SMT DEF SensorDevice_Close, Device
<1> QED
  BY <1>1, <1>2, <1>3

LEMMA InitKeeps ==
    ASSUME NEW d \in Device, d.held = IF d.open THEN 1 ELSE 0, NEW a \in Addr,
           NEW e \in SensorDevice_Init(d, a)
    PROVE  /\ e \in Device /\ e.held = IF e.open THEN 1 ELSE 0
           /\ d.open => e = d
           /\ ~d.open => e.addr = a
<1>1. CASE d.open
  BY <1>1 DEF SensorDevice_Init
<1>2. CASE ~d.open
  <2>1. e \in {[open |-> TRUE, held |-> 1, addr |-> a], [open |-> FALSE, held |-> 0, addr |-> a]}
    BY <1>2 DEF SensorDevice_Init, Opened
  <2>2. CASE e = [open |-> TRUE, held |-> 1, addr |-> a]
    BY <1>2, <2>2 DEF Device
  <2>3. CASE e = [open |-> FALSE, held |-> 0, addr |-> a]
    BY <1>2, <2>3 DEF Device
  <2> QED
    BY <2>1, <2>2, <2>3
<1> QED
  BY <1>1, <1>2

(* Only a CV2003 has the second ID.                                        *)
LEMMA DetectedIsThere ==
    ASSUME NEW d \in Device, NEW p1 \in Pid1(d), NEW p2 \in Pid2(d), Detected(p1, p2)
    PROVE  d.open /\ site[d.addr] = "cv2003"
BY SMT DEF Pid1, Pid2, Heard, At, Detected, IsCv2003, NoAnswer

(* Steps that leave the device alone, and the three that do not.           *)
Quiet ==
    \/ UNCHANGED sensorVars
    \/ \E format \in {515, 516} : Sensor_Init(format)
    \/ Sensor_Kick
    \/ \E poke \in Pokes : SetSensorReg(poke[1], poke[2])
    \/ \E mode \in Modes : SetSensorFlipMirror(mode)
    \/ \E g \in AwbGains : SetSensorAwbGain(g)
    \/ \E i \in Intts : SetIntt(i, None) \/ AdjustIntt(i)
    \/ \E g \in Gains : SetGain(g, None) \/ AdjustGain(g)
    \/ \E h \in FrameHs : SetSnsFrameH(h)

LEMMA StepKinds ==
    ASSUME [SensorNext]_sensorVars
    PROVE  Quiet \/ Sensor_Isconnect \/ (\E format \in {515, 516} : SetSensorFmt(format))
           \/ Sensor_DeInit
BY DEF SensorNext, Quiet

LEMMA QuietSteps ==
    ASSUME Quiet
    PROVE  site' = site /\ dev' = dev /\ (ret' = ret \/ ret' = "none")
<1>1. CASE UNCHANGED sensorVars
  BY <1>1 DEF sensorVars, library, history
<1>2. ASSUME NEW format \in {515, 516}, Sensor_Init(format)
      PROVE  site' = site /\ dev' = dev /\ ret' = "none"
  BY <1>2 DEF Sensor_Init
<1>3. CASE Sensor_Kick
  BY <1>3 DEF Sensor_Kick, library
<1>4. ASSUME NEW poke \in Pokes, SetSensorReg(poke[1], poke[2])
      PROVE  site' = site /\ dev' = dev /\ ret' = "none"
  BY <1>4 DEF SetSensorReg, library
<1>5. ASSUME NEW mode \in Modes, SetSensorFlipMirror(mode)
      PROVE  site' = site /\ dev' = dev /\ ret' = "none"
  BY <1>5 DEF SetSensorFlipMirror, library
<1>6. ASSUME NEW g \in AwbGains, SetSensorAwbGain(g)
      PROVE  site' = site /\ dev' = dev /\ ret' = "none"
  BY <1>6 DEF SetSensorAwbGain
<1>7. ASSUME NEW i, NEW want, SetIntt(i, want)
      PROVE  site' = site /\ dev' = dev /\ ret' = "none"
  BY <1>7 DEF SetIntt
<1>8. ASSUME NEW g, NEW want, SetGain(g, want)
      PROVE  site' = site /\ dev' = dev /\ ret' = "none"
  BY <1>8 DEF SetGain
<1>9. ASSUME NEW h \in FrameHs, SetSnsFrameH(h)
      PROVE  site' = site /\ dev' = dev /\ ret' = "none"
  BY <1>9 DEF SetSnsFrameH
<1> QED
  BY <1>1, <1>2, <1>3, <1>4, <1>5, <1>6, <1>7, <1>8, <1>9 DEF Quiet, AdjustIntt, AdjustGain

LEMMA LoudSteps ==
    Sensor_Isconnect \/ (\E format \in {515, 516} : SetSensorFmt(format)) \/ Sensor_DeInit
           => site' = site
<1>1. Sensor_Isconnect => site' = site
  BY DEF Sensor_Isconnect
<1>2. \A format \in {515, 516} : SetSensorFmt(format) => site' = site
  BY DEF SetSensorFmt
<1>3. Sensor_DeInit => site' = site
  BY DEF Sensor_DeInit
<1> QED
  BY <1>1, <1>2, <1>3

(* The device as the invariant has it.                                     *)
LEMMA Dev ==
    ASSUME BusInv
    PROVE  /\ dev \in Device /\ (dev.held = IF dev.open THEN 1 ELSE 0)
           /\ dev.open => dev.addr = 53
           /\ site \in Sites /\ 53 \in Addr /\ 54 \in Addr
BY DEF BusInv, OneDescriptor, DefaultAddr, Addr

(* The probe leaves the device closed, at the sensor if it found one.      *)
LEMMA ProbeCloses ==
    ASSUME BusInv, Sensor_Isconnect
    PROVE  /\ dev' \in Device /\ ~dev'.open /\ dev'.held = 0
           /\ ret' = "found" => site[dev'.addr] = "cv2003"
<1>d. /\ dev \in Device /\ (dev.held = IF dev.open THEN 1 ELSE 0)
      /\ dev.open => dev.addr = 53
      /\ 53 \in Addr /\ 54 \in Addr
  BY Dev
<1>0. PICK d1 \in SensorDevice_Init(dev, 53) : \E p1 \in Pid1(d1), p2 \in Pid2(d1) :
         IF Detected(p1, p2) THEN Found(53, d1)
         ELSE \E d2 \in SensorDevice_Init(AfterProbe(d1), 54) :
              \E q1 \in Pid1(d2), q2 \in Pid2(d2) :
                 IF Detected(q1, q2) THEN Found(54, d2)
                 ELSE dev' = AfterProbe(d2) /\ ret' = "missing"
  BY DEF Sensor_Isconnect
<1>1. PICK p1 \in Pid1(d1), p2 \in Pid2(d1) :
         IF Detected(p1, p2) THEN Found(53, d1)
         ELSE \E d2 \in SensorDevice_Init(AfterProbe(d1), 54) :
              \E q1 \in Pid1(d2), q2 \in Pid2(d2) :
                 IF Detected(q1, q2) THEN Found(54, d2)
                 ELSE dev' = AfterProbe(d2) /\ ret' = "missing"
  BY <1>0
<1>2. d1 \in Device /\ (d1.held = IF d1.open THEN 1 ELSE 0) /\ d1.addr = 53
  BY <1>d, InitKeeps
<1>3. /\ AfterProbe(d1) = [open |-> FALSE, held |-> 0, addr |-> 53]
      /\ AfterProbe(d1) \in Device
  BY <1>2, CloseKeeps DEF AfterProbe
<1>4. CASE Detected(p1, p2)
  <2>1. site[53] = "cv2003"
    BY <1>2, <1>4, DetectedIsThere
  <2>2. dev' = [open |-> FALSE, held |-> 0, addr |-> 53]
    BY <1>1, <1>3, <1>4 DEF Found
  <2> QED
    BY <1>d, <2>1, <2>2 DEF Device
<1>5. CASE ~Detected(p1, p2)
  <2>0. PICK d2 \in SensorDevice_Init(AfterProbe(d1), 54) :
           \E q1 \in Pid1(d2), q2 \in Pid2(d2) :
              IF Detected(q1, q2) THEN Found(54, d2)
              ELSE dev' = AfterProbe(d2) /\ ret' = "missing"
    BY <1>1, <1>5
  <2>1. PICK q1 \in Pid1(d2), q2 \in Pid2(d2) :
           IF Detected(q1, q2) THEN Found(54, d2)
           ELSE dev' = AfterProbe(d2) /\ ret' = "missing"
    BY <2>0
  <2>2. d2 \in Device /\ (d2.held = IF d2.open THEN 1 ELSE 0) /\ d2.addr = 54
    <3>1. ~AfterProbe(d1).open /\ AfterProbe(d1).held = 0
      BY <1>3
    <3> QED
      BY <1>d, <1>3, <3>1, InitKeeps
  <2>3. AfterProbe(d2) = [open |-> FALSE, held |-> 0, addr |-> 54]
    BY <2>2, CloseKeeps DEF AfterProbe
  <2>4. dev' = [open |-> FALSE, held |-> 0, addr |-> 54]
    BY <2>1, <2>3 DEF Found
  <2>5. ret' = "found" => site[54] = "cv2003"
    BY <2>1, <2>2, DetectedIsThere
  <2> QED
    BY <1>d, <2>4, <2>5 DEF Device
<1> QED
  BY <1>4, <1>5

LEMMA DeInitCloses ==
    ASSUME BusInv, Sensor_DeInit
    PROVE  dev' = [open |-> FALSE, held |-> 0, addr |-> dev.addr] /\ dev' \in Device /\ ret' = "none"
BY Dev, CloseKeeps DEF Sensor_DeInit, AfterDeInit

(* Every step keeps the bus invariant.                                     *)
LEMMA BusStep ==
    ASSUME BusInv, [SensorNext]_sensorVars
    PROVE  BusInv'
<1>1. dev \in Device /\ (dev.held = IF dev.open THEN 1 ELSE 0) /\ (dev.open => dev.addr = 53)
      /\ site \in Sites /\ 53 \in Addr /\ 54 \in Addr
  BY Dev
<1>2. site' = site
  BY QuietSteps, LoudSteps, StepKinds
<1>3. ASSUME dev' = dev, ret' = ret \/ ret' = "none"
      PROVE  BusInv'
  BY <1>2, <1>3 DEF BusInv, OneDescriptor, ProbeSound
<1>4. ASSUME dev' \in Device, ~dev'.open, dev'.held = 0,
             ret' = "found" => site[dev'.addr] = "cv2003"
      PROVE  BusInv'
  BY <1>1, <1>2, <1>4 DEF BusInv, OneDescriptor, ProbeSound
<1>5. CASE Sensor_Isconnect
  BY <1>4, <1>5, ProbeCloses
<1>6. ASSUME NEW format \in {515, 516}, SetSensorFmt(format)
      PROVE  BusInv'
  <2>1. dev' \in SensorDevice_Init(SensorDevice_Close(dev), 53) /\ ret' = "none"
    BY <1>6 DEF SetSensorFmt, DefaultAddr
  <2>2. /\ SensorDevice_Close(dev) = [open |-> FALSE, held |-> 0, addr |-> dev.addr]
        /\ SensorDevice_Close(dev) \in Device
    BY <1>1, CloseKeeps
  <2>3. ~SensorDevice_Close(dev).open /\ SensorDevice_Close(dev).held = 0
    BY <2>2
  <2>4. dev' \in Device /\ (dev'.held = IF dev'.open THEN 1 ELSE 0) /\ dev'.addr = 53
    BY <1>1, <2>1, <2>2, <2>3, InitKeeps
  <2> QED
    BY <1>1, <1>2, <2>1, <2>4 DEF BusInv, OneDescriptor, ProbeSound, DefaultAddr
<1>7. CASE Sensor_DeInit
  BY <1>4, <1>7, DeInitCloses
<1>8. CASE Quiet
  BY <1>3, <1>8, QuietSteps
<1> QED
  BY <1>5, <1>6, <1>7, <1>8, StepKinds

-----------------------------------------------------------------------------
(* The sensor.                                                             *)

(* A transfer writes some of its registers, all of them if it is sound.    *)
LEMMA TransferWrites ==
    ASSUME sound \in BOOLEAN, NEW w, Transfer(w)
    PROVE  /\ sound' \in BOOLEAN /\ (sound' => sound)
           /\ \A r \in Registers :
                 /\ r \notin DOMAIN w => chip'[r] = chip[r]
                 /\ chip'[r] \in {chip[r], w[r]}
                 /\ sound' /\ r \in DOMAIN w => chip'[r] = w[r]
<1>1. PICK arrived \in Arriving(dev, DOMAIN w) :
         chip' = Written(chip, w, arrived) /\ sound' = (sound /\ arrived = DOMAIN w)
  BY DEF Transfer
<1>2. arrived \subseteq DOMAIN w
  BY <1>1 DEF Arriving
<1>3. \A r \in Registers : chip'[r] = IF r \in arrived THEN w[r] ELSE chip[r]
  BY <1>1 DEF Written
<1> QED
  BY <1>1, <1>2, <1>3

(* The registers that the invariant is about.                              *)
Watched == {"VCYC_LO", "VCYC_HI", "STANDBY", "STREAM_EN", "EXP_HI", "EXP_MID", "EXP_LO"}

(* Steps that leave those alone keep it.                                   *)
LEMMA Untouched ==
    ASSUME ValueInv, \A r \in Watched : chip'[r] = chip[r],
           v_cycle' = v_cycle, wanted' = wanted, sound' \in BOOLEAN, sound' => sound,
           dev' = dev \/ ~dev'.open
    PROVE  ValueInv'
<1>1. /\ chip'.VCYC_LO = chip.VCYC_LO /\ chip'.VCYC_HI = chip.VCYC_HI
      /\ chip'.STANDBY = chip.STANDBY /\ chip'.STREAM_EN = chip.STREAM_EN
      /\ chip'.EXP_HI = chip.EXP_HI /\ chip'.EXP_MID = chip.EXP_MID /\ chip'.EXP_LO = chip.EXP_LO
  BY DEF Watched
<1> QED
  BY <1>1 DEF ValueInv, FrameLengthAgrees, StreamsWhileOpen, ExposureAsAsked, FrameLength,
              Streams, Exposure

LEMMA InitValue ==
    ASSUME ValueInv, NEW format \in {515, 516}, Sensor_Init(format)
    PROVE  ValueInv'
<1> DEFINE w == Table(format)
<1>1. DOMAIN w = {"STANDBY", "GAIN_MODE", "VCYC_LO", "VCYC_HI"}
      /\ w["STANDBY"] = 0 /\ w["VCYC_LO"] \in Byte /\ w["VCYC_HI"] \in Byte
      /\ 256 * w["VCYC_HI"] + w["VCYC_LO"] = TableCycle(format)
      /\ TableCycle(format) \in {2250, 2700}
  BY SMT DEF Table, TableCycle, Byte
<1>2. Transfer(w) /\ v_cycle' = TableCycle(format) /\ wanted' = None /\ dev' = dev
  BY DEF Sensor_Init
<1> HIDE DEF w
<1>3. /\ sound' \in BOOLEAN /\ (sound' => sound)
      /\ \A r \in Registers :
            /\ r \notin DOMAIN w => chip'[r] = chip[r]
            /\ chip'[r] \in {chip[r], w[r]}
            /\ sound' /\ r \in DOMAIN w => chip'[r] = w[r]
  BY <1>2, TransferWrites DEF ValueInv
<1>4. /\ chip'.VCYC_LO \in Byte /\ chip'.VCYC_HI \in Byte
      /\ chip'.STREAM_EN = chip.STREAM_EN
      /\ sound' => /\ chip'.STANDBY = 0
                   /\ chip'.VCYC_LO = w["VCYC_LO"] /\ chip'.VCYC_HI = w["VCYC_HI"]
  BY <1>1, <1>3 DEF Registers, ValueInv
<1>5. /\ v_cycle' \in Nat /\ v_cycle' < ShutterRange /\ v_cycle' >= 1125
      /\ v_cycle' % 65536 = v_cycle'
  <2>1. v_cycle' = 2250 \/ v_cycle' = 2700
    BY <1>1, <1>2
  <2>2. 2250 % 65536 = 2250 /\ 2700 % 65536 = 2700
    BY SMT
  <2> QED
    BY <2>1, <2>2, SMT DEF ShutterRange
<1> QED
  BY <1>1, <1>2, <1>3, <1>4, <1>5
     DEF ValueInv, FrameLengthAgrees, StreamsWhileOpen, ExposureAsAsked, FrameLength, Streams

(* The first line of an exposure of i lines.                               *)
LEMMA ShutterFor ==
    ASSUME v_cycle \in Nat, v_cycle >= 1125, NEW i \in Nat
    PROVE  LET val == ShutterStart(CalcSnsValidIntt(i))
           IN  val \in Nat /\ val < v_cycle /\ v_cycle - val = Largest(4, Least(i, v_cycle - 8))
<1>1. LastLine = v_cycle - 4
  BY SMT DEF LastLine, Sub
<1>2. PICK j \in Nat : j = CalcSnsValidIntt(i)
  BY <1>1, SMT DEF CalcSnsValidIntt, Least
<1>3. j = Least(i, v_cycle - 4)
  BY <1>1, <1>2 DEF CalcSnsValidIntt
<1>4. Sub(v_cycle, j) = v_cycle - j
  BY <1>3, SMT DEF Sub, Least
<1>5. ShutterStart(j) = Least(Largest(v_cycle - j, 8), v_cycle - 4)
  BY <1>1, <1>4 DEF ShutterStart
<1> QED
  BY <1>2, <1>3, <1>5, SMT DEF Least, Largest

(* Of the callbacks that set the exposure only AdjustIntt says what for.   *)
LEMMA SetInttValue ==
    ASSUME ValueInv, NEW i \in Nat, SetIntt(i, None)
    PROVE  ValueInv'
<1> DEFINE val == ShutterStart(i)
           w == [EXP_HI |-> (val \div 65536) % 256, EXP_MID |-> (val \div 256) % 256,
                 EXP_LO |-> val % 256]
<1>1. DOMAIN w = {"EXP_HI", "EXP_MID", "EXP_LO"}
  OBVIOUS
<1>2. Transfer(w) /\ v_cycle' = v_cycle /\ wanted' = None /\ dev' = dev
  BY DEF SetIntt
<1> HIDE DEF w
<1>3. /\ sound' \in BOOLEAN /\ (sound' => sound)
      /\ \A r \in Registers : r \notin DOMAIN w => chip'[r] = chip[r]
  BY <1>2, TransferWrites DEF ValueInv
<1>4. /\ chip'.VCYC_LO = chip.VCYC_LO /\ chip'.VCYC_HI = chip.VCYC_HI
      /\ chip'.STANDBY = chip.STANDBY /\ chip'.STREAM_EN = chip.STREAM_EN
  BY <1>1, <1>3 DEF Registers
<1> QED
  BY <1>2, <1>3, <1>4
     DEF ValueInv, FrameLengthAgrees, StreamsWhileOpen, ExposureAsAsked, FrameLength, Streams

LEMMA AdjustInttValue ==
    ASSUME ValueInv, NEW i \in Nat, AdjustIntt(i)
    PROVE  ValueInv'
<1> DEFINE val == ShutterStart(CalcSnsValidIntt(i))
           w == [EXP_HI |-> (val \div 65536) % 256, EXP_MID |-> (val \div 256) % 256,
                 EXP_LO |-> val % 256]
<1>1. DOMAIN w = {"EXP_HI", "EXP_MID", "EXP_LO"}
      /\ w["EXP_HI"] = (val \div 65536) % 256 /\ w["EXP_MID"] = (val \div 256) % 256
      /\ w["EXP_LO"] = val % 256
  OBVIOUS
<1>2. Transfer(w) /\ v_cycle' = v_cycle /\ wanted' = i /\ dev' = dev
  BY DEF AdjustIntt, SetIntt
<1>3. sound => val \in Nat /\ val < v_cycle
               /\ v_cycle - val = Largest(4, Least(i, v_cycle - 8))
  BY ShutterFor DEF ValueInv
<1> HIDE DEF w, val
<1>4. /\ sound' \in BOOLEAN /\ (sound' => sound)
      /\ \A r \in Registers : r \notin DOMAIN w => chip'[r] = chip[r]
      /\ \A r \in Registers : sound' /\ r \in DOMAIN w => chip'[r] = w[r]
  BY <1>2, TransferWrites DEF ValueInv
<1>5. /\ chip'.VCYC_LO = chip.VCYC_LO /\ chip'.VCYC_HI = chip.VCYC_HI
      /\ chip'.STANDBY = chip.STANDBY /\ chip'.STREAM_EN = chip.STREAM_EN
      /\ sound' => /\ chip'.EXP_HI = w["EXP_HI"] /\ chip'.EXP_MID = w["EXP_MID"]
                   /\ chip'.EXP_LO = w["EXP_LO"]
  BY <1>1, <1>4 DEF Registers
<1>6. ASSUME sound'
      PROVE  Exposure(chip') = val
  <2>1. val \in Nat /\ val < ShutterRange
    BY <1>3, <1>4, <1>6 DEF ValueInv, ShutterRange
  <2> QED
    BY <1>1, <1>5, <1>6, <2>1, ThreeBytes DEF Exposure
<1>7. ExposureAsAsked'
  BY <1>2, <1>3, <1>4, <1>6 DEF ExposureAsAsked
<1> QED
  BY <1>2, <1>4, <1>5, <1>7
     DEF ValueInv, FrameLengthAgrees, StreamsWhileOpen, FrameLength, Streams

LEMMA SetSnsFrameHValue ==
    ASSUME ValueInv, NEW asked \in Nat, asked < ShutterRange, SetSnsFrameH(asked)
    PROVE  ValueInv'
<1> DEFINE frame_h == Largest(asked, 1125)
           w == FrameBytes(frame_h)
<1>1. /\ DOMAIN w = {"VCYC_HI", "VCYC_LO"}
      /\ w["VCYC_HI"] = (frame_h \div 256) % 256 /\ w["VCYC_LO"] = frame_h % 256
  BY DEF FrameBytes
<1>2. Transfer(w) /\ v_cycle' = frame_h /\ wanted' = None /\ dev' = dev
  BY DEF SetSnsFrameH
<1>3. frame_h \in Nat /\ frame_h < ShutterRange /\ frame_h >= 1125
  BY SMT DEF Largest, ShutterRange
<1> HIDE DEF w, frame_h
<1>4. w["VCYC_HI"] \in Byte /\ w["VCYC_LO"] \in Byte
  BY <1>1, <1>3, LowByte
<1>5. 256 * w["VCYC_HI"] + w["VCYC_LO"] = frame_h % 65536
  BY <1>1, <1>3, TwoBytes
<1>6. /\ sound' \in BOOLEAN /\ (sound' => sound)
      /\ \A r \in Registers :
            /\ r \notin DOMAIN w => chip'[r] = chip[r]
            /\ chip'[r] \in {chip[r], w[r]}
            /\ sound' /\ r \in DOMAIN w => chip'[r] = w[r]
  BY <1>2, TransferWrites DEF ValueInv
<1>7. /\ chip'.VCYC_LO \in Byte /\ chip'.VCYC_HI \in Byte
      /\ chip'.STREAM_EN = chip.STREAM_EN /\ chip'.STANDBY = chip.STANDBY
      /\ sound' => chip'.VCYC_LO = w["VCYC_LO"] /\ chip'.VCYC_HI = w["VCYC_HI"]
  BY <1>1, <1>4, <1>6 DEF Registers, ValueInv
<1> QED
  BY <1>2, <1>3, <1>5, <1>6, <1>7
     DEF ValueInv, FrameLengthAgrees, StreamsWhileOpen, ExposureAsAsked, FrameLength, Streams

(* A gain has registers of its own.                                        *)
LEMMA SetGainValue ==
    ASSUME ValueInv, NEW g, NEW want, SetGain(g, want)
    PROVE  ValueInv'
<1> DEFINE w == GainBytes(g)
<1>1. DOMAIN w \subseteq {"GAIN_IDX", "GAIN_HI", "GAIN_LO", "GAIN_MODE"}
  BY DEF GainBytes
<1>2. Transfer(w) /\ v_cycle' = v_cycle /\ wanted' = wanted /\ dev' = dev
  BY DEF SetGain
<1> HIDE DEF w
<1>3. /\ sound' \in BOOLEAN /\ (sound' => sound)
      /\ \A r \in Registers : r \notin DOMAIN w => chip'[r] = chip[r]
  BY <1>2, TransferWrites DEF ValueInv
<1>4. \A r \in Watched : chip'[r] = chip[r]
  BY <1>1, <1>3 DEF Watched, Registers
<1> QED
  BY <1>2, <1>3, <1>4, Untouched

LEMMA KickValue ==
    ASSUME ValueInv, Sensor_Kick
    PROVE  ValueInv'
<1> DEFINE w == [STREAM_EN |-> 1]
<1>1. DOMAIN w = {"STREAM_EN"} /\ w["STREAM_EN"] = 1
  OBVIOUS
<1>2. Transfer(w) /\ v_cycle' = v_cycle /\ wanted' = wanted /\ dev' = dev
  BY DEF Sensor_Kick, library
<1> HIDE DEF w
<1>3. /\ sound' \in BOOLEAN /\ (sound' => sound)
      /\ \A r \in Registers :
            /\ r \notin DOMAIN w => chip'[r] = chip[r]
            /\ sound' /\ r \in DOMAIN w => chip'[r] = w[r]
  BY <1>2, TransferWrites DEF ValueInv
<1>4. /\ chip'.VCYC_LO = chip.VCYC_LO /\ chip'.VCYC_HI = chip.VCYC_HI
      /\ chip'.STANDBY = chip.STANDBY
      /\ chip'.EXP_HI = chip.EXP_HI /\ chip'.EXP_MID = chip.EXP_MID /\ chip'.EXP_LO = chip.EXP_LO
      /\ sound' => chip'.STREAM_EN = 1
  BY <1>1, <1>3 DEF Registers
<1> QED
  BY <1>2, <1>3, <1>4
     DEF ValueInv, FrameLengthAgrees, StreamsWhileOpen, ExposureAsAsked, FrameLength, Streams, Exposure

(* Standby is written to a device that is then closed.                     *)
LEMMA DeInitValue ==
    ASSUME BusInv, ValueInv, Sensor_DeInit
    PROVE  ValueInv'
<1> DEFINE w == [STANDBY |-> 1]
<1>1. DOMAIN w = {"STANDBY"}
  OBVIOUS
<1>2. Transfer(w) /\ v_cycle' = v_cycle /\ wanted' = wanted
  BY DEF Sensor_DeInit
<1> HIDE DEF w
<1>3. /\ sound' \in BOOLEAN /\ (sound' => sound)
      /\ \A r \in Registers : r \notin DOMAIN w => chip'[r] = chip[r]
  BY <1>2, TransferWrites DEF ValueInv
<1>4. /\ chip'.VCYC_LO = chip.VCYC_LO /\ chip'.VCYC_HI = chip.VCYC_HI
      /\ chip'.EXP_HI = chip.EXP_HI /\ chip'.EXP_MID = chip.EXP_MID /\ chip'.EXP_LO = chip.EXP_LO
  BY <1>1, <1>3 DEF Registers
<1>5. ~dev'.open
  BY DeInitCloses
<1> QED
  BY <1>2, <1>3, <1>4, <1>5
     DEF ValueInv, FrameLengthAgrees, StreamsWhileOpen, ExposureAsAsked, FrameLength, Exposure

LEMMA PokeValue ==
    ASSUME ValueInv, NEW r \in Registers, NEW val \in Byte, SetSensorReg(r, val)
    PROVE  ValueInv'
<1>1. PICK arrived \in Arriving(dev, {r}) : chip' = Written(chip, [x \in {r} |-> val], arrived)
  BY DEF SetSensorReg
<1>2. arrived \subseteq {r}
  BY <1>1 DEF Arriving
<1>3. \A x \in Registers : chip'[x] = IF x \in arrived THEN val ELSE chip[x]
  BY <1>1, <1>2 DEF Written
<1>4. chip'.VCYC_LO \in Byte /\ chip'.VCYC_HI \in Byte
  BY <1>3 DEF Registers, ValueInv
<1>5. sound' = FALSE /\ v_cycle' = v_cycle /\ wanted' = wanted
  BY DEF SetSensorReg, library
<1>6. sound' \in BOOLEAN /\ ~sound'
  BY <1>5
<1>7. FrameLengthAgrees' /\ StreamsWhileOpen' /\ ExposureAsAsked'
  BY <1>6 DEF FrameLengthAgrees, StreamsWhileOpen, ExposureAsAsked
<1> QED
  BY <1>4, <1>5, <1>6, <1>7 DEF ValueInv

LEMMA FlipMirrorValue ==
    ASSUME ValueInv, NEW mode, SetSensorFlipMirror(mode)
    PROVE  ValueInv'
<1>0. PICK val \in Reading(dev, chip, "FLIP_MIRROR") :
         \E arrived \in Arriving(dev, {"FLIP_MIRROR"}) : \E w :
            chip' = Written(chip, w, arrived) /\ sound' = (sound /\ val # NoAnswer /\ arrived # {})
  BY DEF SetSensorFlipMirror
<1>1. PICK arrived \in Arriving(dev, {"FLIP_MIRROR"}) :
         \E w : chip' = Written(chip, w, arrived) /\ sound' = (sound /\ val # NoAnswer /\ arrived # {})
  BY <1>0
<1>2. arrived \subseteq {"FLIP_MIRROR"}
  BY <1>1 DEF Arriving
<1>3. \A r \in Watched : chip'[r] = chip[r]
  BY <1>1, <1>2 DEF Written, Watched, Registers
<1>4. sound' \in BOOLEAN /\ (sound' => sound)
  BY <1>1 DEF ValueInv
<1> QED
  BY <1>3, <1>4, Untouched DEF SetSensorFlipMirror, library

(* What the sensor has after SetSensorFmt is what the table said.          *)
LEMMA FmtValue ==
    ASSUME ValueInv, NEW format \in {515, 516}, SetSensorFmt(format)
    PROVE  ValueInv'
<1> DEFINE w == [r \in DOMAIN Table(format) \cup {"STREAM_EN"} |->
                    IF r = "STREAM_EN" THEN 1 ELSE Table(format)[r]]
<1>1. DOMAIN w = {"STANDBY", "GAIN_MODE", "VCYC_LO", "VCYC_HI", "STREAM_EN"}
      /\ w["STANDBY"] = 0 /\ w["STREAM_EN"] = 1
      /\ w["VCYC_LO"] \in Byte /\ w["VCYC_HI"] \in Byte
      /\ 256 * w["VCYC_HI"] + w["VCYC_LO"] \in {2250, 2700}
  BY SMT DEF Table, Byte
<1>2. PICK d : \E arrived \in Arriving(d, DOMAIN w) :
         LET c == Written(chip, w, arrived) IN
         \E lo \in Reading(d, c, "VCYC_LO"), hi \in Reading(d, c, "VCYC_HI") :
            /\ dev' = d /\ chip' = c
            /\ v_cycle' = ReadBack(hi, lo)
            /\ sound' = (arrived = DOMAIN w /\ NoAnswer \notin {lo, hi})
            /\ wanted' = None
  BY DEF SetSensorFmt
<1> HIDE DEF w
<1>3. PICK arrived \in Arriving(d, DOMAIN w) :
         LET c == Written(chip, w, arrived) IN
         \E lo \in Reading(d, c, "VCYC_LO"), hi \in Reading(d, c, "VCYC_HI") :
            /\ dev' = d /\ chip' = c
            /\ v_cycle' = ReadBack(hi, lo)
            /\ sound' = (arrived = DOMAIN w /\ NoAnswer \notin {lo, hi})
            /\ wanted' = None
  BY <1>2
<1>4. PICK lo \in Reading(d, chip', "VCYC_LO"), hi \in Reading(d, chip', "VCYC_HI") :
         /\ chip' = Written(chip, w, arrived)
         /\ v_cycle' = ReadBack(hi, lo)
         /\ sound' = (arrived = DOMAIN w /\ NoAnswer \notin {lo, hi})
         /\ wanted' = None
  BY <1>3
<1>5. arrived \subseteq DOMAIN w /\ (At(d) # "cv2003" => arrived = {})
  BY <1>3 DEF Arriving
<1>6. \A r \in Registers : chip'[r] = IF r \in arrived THEN w[r] ELSE chip[r]
  BY <1>4 DEF Written
<1>7. chip'.VCYC_LO \in Byte /\ chip'.VCYC_HI \in Byte
  BY <1>1, <1>5, <1>6 DEF Registers, ValueInv
<1>8. /\ lo \in {chip'["VCYC_LO"], 0, NoAnswer} /\ hi \in {chip'["VCYC_HI"], 0, NoAnswer}
      /\ At(d) = "cv2003" => lo \in {chip'["VCYC_LO"], NoAnswer} /\ hi \in {chip'["VCYC_HI"], NoAnswer}
  BY <1>4 DEF Reading, Heard
<1>9. lo \in Nat /\ hi \in Nat
  BY <1>7, <1>8 DEF Byte, NoAnswer
<1>10. v_cycle' \in Nat /\ v_cycle' < ShutterRange
  <2>1. /\ lo % 256 \in 0 .. 255 /\ hi % 256 \in 0 .. 255
        /\ v_cycle' = 256 * (hi % 256) + (lo % 256)
    BY <1>4, <1>9, LowByte DEF Byte, ReadBack
  <2>2. PICK x \in 0 .. 255, y \in 0 .. 255 : v_cycle' = 256 * x + y
    BY <2>1
  <2> QED
    BY <2>2, SMT DEF ShutterRange
<1>11. ASSUME sound'
       PROVE  /\ FrameLength(chip') = v_cycle' % 65536 /\ v_cycle' >= 1125
              /\ Streams(chip')
  <2>1. arrived = DOMAIN w /\ lo # NoAnswer /\ hi # NoAnswer
    BY <1>4, <1>11
  <2>2. lo = chip'["VCYC_LO"] /\ hi = chip'["VCYC_HI"]
    BY <1>1, <1>5, <1>8, <2>1
  <2>3. /\ chip'["VCYC_LO"] = w["VCYC_LO"] /\ chip'["VCYC_HI"] = w["VCYC_HI"]
        /\ chip'["STANDBY"] = 0 /\ chip'["STREAM_EN"] = 1
    BY <1>1, <1>6, <2>1 DEF Registers
  <2>4. lo % 256 = lo /\ hi % 256 = hi
    BY <1>1, <2>2, <2>3, SMT DEF Byte
  <2>5. v_cycle' \in {2250, 2700} /\ v_cycle' = 256 * w["VCYC_HI"] + w["VCYC_LO"]
    BY <1>1, <1>4, <2>2, <2>3, <2>4 DEF ReadBack
  <2>6. v_cycle' % 65536 = v_cycle'
    <3>1. 2250 % 65536 = 2250 /\ 2700 % 65536 = 2700
      BY SMT
    <3> QED
      BY <2>5, <3>1
  <2>7. v_cycle' >= 1125
    BY <2>5
  <2> QED
    BY <2>3, <2>5, <2>6, <2>7 DEF FrameLength, Streams
<1>12. sound' \in BOOLEAN /\ wanted' = None
  BY <1>4
<1> QED
  BY <1>7, <1>10, <1>11, <1>12
     DEF ValueInv, FrameLengthAgrees, StreamsWhileOpen, ExposureAsAsked

(* Every step keeps what the invariant says of the sensor.                 *)
LEMMA ValueStep ==
    ASSUME BusInv, ValueInv, [SensorNext]_sensorVars
    PROVE  ValueInv'
<1>1. CASE UNCHANGED sensorVars
  BY <1>1 DEF ValueInv, FrameLengthAgrees, StreamsWhileOpen, ExposureAsAsked, sensorVars, library, history
<1>2. CASE Sensor_Isconnect
  <2>1. ~dev'.open
    BY <1>2, ProbeCloses
  <2> QED
    BY <1>2, <2>1, Untouched DEF Sensor_Isconnect, ValueInv
<1>3. ASSUME NEW format \in {515, 516}, Sensor_Init(format) \/ SetSensorFmt(format)
      PROVE  ValueInv'
  BY <1>3, InitValue, FmtValue
<1>4. CASE Sensor_DeInit
  BY <1>4, DeInitValue
<1>5. CASE Sensor_Kick
  BY <1>5, KickValue
<1>6. ASSUME NEW poke \in Pokes, SetSensorReg(poke[1], poke[2])
      PROVE  ValueInv'
  <2>1. poke[1] \in Registers /\ poke[2] \in Byte
    BY SensorAssumption
  <2> QED
    BY <1>6, <2>1, PokeValue
<1>7. ASSUME NEW mode \in Modes, SetSensorFlipMirror(mode)
      PROVE  ValueInv'
  BY <1>7, FlipMirrorValue
<1>8. ASSUME NEW g \in AwbGains, SetSensorAwbGain(g)
      PROVE  ValueInv'
  BY <1>8, Untouched DEF SetSensorAwbGain, ValueInv
<1>9. ASSUME NEW i \in Intts, SetIntt(i, None) \/ AdjustIntt(i)
      PROVE  ValueInv'
  <2>1. i \in Nat
    BY SensorAssumption
  <2> QED
    BY <1>9, <2>1, SetInttValue, AdjustInttValue
<1>10. ASSUME NEW g \in Gains, SetGain(g, None) \/ AdjustGain(g)
       PROVE  ValueInv'
  BY <1>10, SetGainValue DEF AdjustGain
<1>11. ASSUME NEW h \in FrameHs, SetSnsFrameH(h)
       PROVE  ValueInv'
  <2>1. h \in Nat /\ h < ShutterRange
    BY SensorAssumption
  <2> QED
    BY <1>11, <2>1, SetSnsFrameHValue
<1> QED
  BY <1>1, <1>2, <1>3, <1>4, <1>5, <1>6, <1>7, <1>8, <1>9, <1>10, <1>11 DEF SensorNext

-----------------------------------------------------------------------------
LEMMA InitialBus == SensorInit => BusInv
<1> SUFFICES ASSUME SensorInit
             PROVE  BusInv
  OBVIOUS
<1>1. dev \in Device /\ ~dev.open /\ dev.held = 0 /\ site \in Sites /\ ret = "none"
  BY DEF SensorInit, Closed, Device
<1> QED
  BY <1>1 DEF BusInv, OneDescriptor, ProbeSound

LEMMA InitialValue == SensorInit => ValueInv
<1> SUFFICES ASSUME SensorInit
             PROVE  ValueInv
  OBVIOUS
<1>1. chip.VCYC_LO = 0 /\ chip.VCYC_HI = 0
  BY DEF SensorInit, PowerOn, Registers
<1>2. v_cycle = 2700 /\ wanted = None /\ sound = FALSE
  BY DEF SensorInit
<1>3. v_cycle < ShutterRange /\ v_cycle \in Nat
  BY <1>2, SMT DEF ShutterRange
<1>4. 0 \in Byte
  BY DEF Byte
<1>5. FrameLengthAgrees /\ StreamsWhileOpen /\ ExposureAsAsked
  BY <1>2 DEF FrameLengthAgrees, StreamsWhileOpen, ExposureAsAsked
<1>6. sound \in BOOLEAN /\ ~sound
  BY <1>2
<1> QED
  BY <1>1, <1>2, <1>3, <1>4, <1>5, <1>6 DEF ValueInv

(***************************************************************************)
(* The bus invariant, and with it the sensor's, holds in every order of    *)
(* the library's callbacks.                                                *)
(***************************************************************************)
THEOREM LibraryInductive == SensorSpec => [](BusInv /\ ValueInv)
<1>1. SensorInit => BusInv /\ ValueInv
  BY InitialBus, InitialValue
<1>2. BusInv /\ ValueInv /\ [SensorNext]_sensorVars => (BusInv /\ ValueInv)'
  BY BusStep, ValueStep
<1> QED
  BY <1>1, <1>2, PTL DEF SensorSpec

(***************************************************************************)
(* No order of formats, probes and closes, and no open() that fails, makes *)
(* libcv2003_mipi.c lose a descriptor of /dev/i2c-0.                       *)
(***************************************************************************)
THEOREM BusNeverLeaks == SensorSpec => []OneDescriptor
<1>1. BusInv /\ ValueInv => OneDescriptor
  BY DEF BusInv
<1> QED
  BY <1>1, LibraryInductive, PTL

(***************************************************************************)
(* When Sensor_Isconnect says 1, a CV2003 is at g_slave_addr.              *)
(***************************************************************************)
THEOREM ProbeTruthful == SensorSpec => []ProbeSound
<1>1. BusInv /\ ValueInv => ProbeSound
  BY DEF BusInv
<1> QED
  BY <1>1, LibraryInductive, PTL

(***************************************************************************)
(* Until a transfer is lost, g_v_cycle is the sensor's frame length, after *)
(* every callback that sets either.                                        *)
(***************************************************************************)
THEOREM FrameLengthKept == SensorSpec => []FrameLengthAgrees
<1>1. BusInv /\ ValueInv => FrameLengthAgrees
  BY DEF ValueInv
<1> QED
  BY <1>1, LibraryInductive, PTL

(***************************************************************************)
(* Until a transfer is lost, a sensor behind an open device streams.       *)
(***************************************************************************)
THEOREM StreamKept == SensorSpec => []StreamsWhileOpen
<1>1. BusInv /\ ValueInv => StreamsWhileOpen
  BY DEF ValueInv
<1> QED
  BY <1>1, LibraryInductive, PTL

(***************************************************************************)
(* An integration time that went through CalcSnsValidIntt is what the      *)
(* sensor's three shutter registers come to, for every frame length and    *)
(* every 32-bit request: the unsigned v_cycle - intt never wraps.          *)
(***************************************************************************)
THEOREM ExposureKept == SensorSpec => []ExposureAsAsked
<1>1. BusInv /\ ValueInv => ExposureAsAsked
  BY DEF ValueInv
<1> QED
  BY <1>1, LibraryInductive, PTL

-----------------------------------------------------------------------------
(* Types: every write to the sensor is a byte.                             *)

(* gain_lut has fewer than 256 entries below the last.                     *)
LEMMA GainIndexByte ==
    ASSUME NEW g
    PROVE  GainIndex(g) \in Byte
<1> DEFINE S == {x \in GainLut \ {1024} : x < g}
           K == 16 .. 255
           T == {4 * k : k \in K}
<1>1. IsFiniteSet(K) /\ Cardinality(K) = 240
  <2>1. 16 \in Int /\ 255 \in Int
    OBVIOUS
  <2>2. /\ IsFiniteSet(16 .. 255)
        /\ Cardinality(16 .. 255) = IF 16 > 255 THEN 0 ELSE 255 - 16 + 1
    BY <2>1, FS_Interval, Zenon
  <2> QED
    BY <2>2
<1>2. S \subseteq T
  <2> SUFFICES ASSUME NEW x \in GainLut, x # 1024 PROVE x \in T
    OBVIOUS
  <2>1. CASE x \in {64 + 4 * k : k \in 0 .. 23}
    <3>1. PICK k \in 0 .. 23 : x = 64 + 4 * k
      BY <2>1
    <3>2. x = 4 * (16 + k) /\ 16 + k \in K
      BY <3>1
    <3> QED
      BY <3>2
  <2>2. CASE x \in {160 + 8 * k : k \in 0 .. 11}
    <3>1. PICK k \in 0 .. 11 : x = 160 + 8 * k
      BY <2>2
    <3>2. x = 4 * (40 + 2 * k) /\ 40 + 2 * k \in K
      BY <3>1
    <3> QED
      BY <3>2
  <2>3. CASE x \in {256 + 16 * k : k \in 0 .. 15}
    <3>1. PICK k \in 0 .. 15 : x = 256 + 16 * k
      BY <2>3
    <3>2. x = 4 * (64 + 4 * k) /\ 64 + 4 * k \in K
      BY <3>1
    <3> QED
      BY <3>2
  <2>4. CASE x \in {512 + 32 * k : k \in 0 .. 16}
    <3>1. PICK k \in 0 .. 16 : x = 512 + 32 * k
      BY <2>4
    <3>2. x = 4 * (128 + 8 * k) /\ 128 + 8 * k \in K
      BY <3>1
    <3> QED
      BY <3>2
  <2> QED
    BY <2>1, <2>2, <2>3, <2>4 DEF GainLut
<1>3. IsFiniteSet(T) /\ Cardinality(T) \in Nat /\ Cardinality(T) <= 240
  <2> HIDE DEF K
  <2> DEFINE f == [k \in K |-> 4 * k]
  <2>1. T = {f[k] : k \in K}
    OBVIOUS
  <2>2. f \in Surjection(K, T)
    BY DEF Surjection
  <2>3. IsFiniteSet(T) /\ Cardinality(T) <= Cardinality(K)
    BY <1>1, <2>2, FS_Surjection, Zenon
  <2> QED
    BY <1>1, <2>3, FS_CardinalityType
<1>4. IsFiniteSet(S) /\ Cardinality(S) <= Cardinality(T) /\ Cardinality(S) \in Nat
  BY <1>2, <1>3, FS_Subset, FS_CardinalityType
<1>5. Cardinality(S) \in 0 .. 240
  BY <1>3, <1>4
<1> QED
  BY <1>5 DEF GainIndex, Byte

(* A transfer of bytes leaves bytes.                                       *)
LEMMA WrittenBytes ==
    ASSUME chip \in [Registers -> Byte], NEW w, NEW arrived \in SUBSET DOMAIN w,
           \A r \in DOMAIN w : w[r] \in Byte
    PROVE  Written(chip, w, arrived) \in [Registers -> Byte]
<1>1. \A r \in Registers : (IF r \in arrived THEN w[r] ELSE chip[r]) \in Byte
  OBVIOUS
<1> QED
  BY <1>1 DEF Written

LEMMA ArrivingWrites ==
    ASSUME NEW d, NEW regs, NEW arrived \in Arriving(d, regs)
    PROVE  arrived \in SUBSET regs
  BY DEF Arriving

LEMMA TransferBytes ==
    ASSUME chip \in [Registers -> Byte], NEW w, \A r \in DOMAIN w : w[r] \in Byte,
           Transfer(w)
    PROVE  chip' \in [Registers -> Byte]
<1>1. PICK arrived \in Arriving(dev, DOMAIN w) : chip' = Written(chip, w, arrived)
  BY DEF Transfer
<1> QED
  BY <1>1, ArrivingWrites, WrittenBytes

LEMMA TableBytes ==
    ASSUME NEW format
    PROVE  \A r \in DOMAIN Table(format) : Table(format)[r] \in Byte
  BY DEF Table, Byte

LEMMA ShutterBytes ==
    ASSUME NEW val \in Nat
    PROVE  LET w == [EXP_HI |-> (val \div 65536) % 256, EXP_MID |-> (val \div 256) % 256,
                     EXP_LO |-> val % 256]
           IN  \A r \in DOMAIN w : w[r] \in Byte
<1> DEFINE w == [EXP_HI |-> (val \div 65536) % 256, EXP_MID |-> (val \div 256) % 256,
                 EXP_LO |-> val % 256]
           hi == val \div 65536
           mid == val \div 256
<1>1. hi \in Nat /\ mid \in Nat
  BY SMT
<1>2. w.EXP_HI = hi % 256 /\ w.EXP_MID = mid % 256 /\ w.EXP_LO = val % 256
      /\ DOMAIN w = {"EXP_HI", "EXP_MID", "EXP_LO"}
  OBVIOUS
<1> HIDE DEF w, hi, mid
<1>3. hi % 256 \in Byte /\ mid % 256 \in Byte /\ val % 256 \in Byte
  BY <1>1, LowByte
<1>4. \A r \in DOMAIN w : w[r] \in Byte
  BY <1>2, <1>3
<1> QED
  BY <1>4 DEF w

LEMMA GainBytesBytes ==
    ASSUME NEW g \in Nat
    PROVE  \A r \in DOMAIN GainBytes(g) : GainBytes(g)[r] \in Byte
<1> DEFINE n == RegGain(g)
<1>1. n \in 64 .. 1023
  <2>1. g \div 32 \in Nat
    BY SMT
  <2> QED
    BY <2>1 DEF RegGain, Least, Largest
<1>2. n \div 256 \in Byte /\ n % 256 \in Byte
  <2> HIDE DEF n
  <2>1. n \in Nat
    BY <1>1
  <2> QED
    BY <1>1, <2>1, LowByte DEF Byte
<1>3. GainIndex(g) \in Byte /\ GainMode(g) \in Byte
  BY GainIndexByte DEF GainMode, Byte
<1> HIDE DEF n
<1> DEFINE w == GainBytes(g)
<1>4. /\ DOMAIN w \subseteq {"GAIN_IDX", "GAIN_HI", "GAIN_LO", "GAIN_MODE"}
      /\ "GAIN_IDX" \in DOMAIN w => w["GAIN_IDX"] = GainIndex(g)
      /\ "GAIN_HI" \in DOMAIN w => w["GAIN_HI"] = n \div 256
      /\ "GAIN_LO" \in DOMAIN w => w["GAIN_LO"] = n % 256
      /\ "GAIN_MODE" \in DOMAIN w => w["GAIN_MODE"] = GainMode(g)
  BY DEF GainBytes, n
<1> HIDE DEF w
<1>5. \A r \in DOMAIN w : w[r] \in Byte
  BY <1>2, <1>3, <1>4
<1> QED
  BY <1>5 DEF w

LEMMA FlipMirrorByte ==
    ASSUME NEW val \in Nat, NEW mode \in Nat
    PROVE  4 * ((val % 256) \div 4) + 2 * (mode % 2) + ((mode \div 2) % 2) \in Byte
<1> DEFINE a == (val % 256) \div 4
           b == mode % 2
           c == (mode \div 2) % 2
<1>1. a \in 0 .. 63
  <2>1. val % 256 \in 0 .. 255
    BY LowByte DEF Byte
  <2> QED
    BY <2>1, SMT
<1>2. b \in 0 .. 1 /\ c \in 0 .. 1
  BY SMT
<1> HIDE DEF a, b, c
<1>3. 4 * a + 2 * b + c \in Byte
  BY <1>1, <1>2 DEF Byte
<1> QED
  BY <1>3 DEF a, b, c

(* What a read of a register may return is a word of 16 bits.              *)
LEMMA ReadingNat ==
    ASSUME NEW d, NEW c \in [Registers -> Byte], NEW r \in Registers, NEW val \in Reading(d, c, r)
    PROVE  val \in Nat
<1>1. val \in {c[r], 0, NoAnswer}
  BY DEF Reading, Heard
<1> QED
  BY <1>1 DEF Byte, NoAnswer

(* The words of the callers.                                               *)
LEMMA LibraryWords ==
    ASSUME v_cycle \in Nat, v_cycle < ShutterRange, NEW i \in Word
    PROVE  /\ CalcSnsValidIntt(i) \in Word /\ CalcSnsValidGain(i) \in Word
           /\ ShutterStart(i) \in Nat
<1>0. ShutterRange \in Nat /\ ShutterRange > 1000000
  BY DEF ShutterRange
<1>1. /\ WordModulus \in Nat /\ WordModulus > ShutterRange
      /\ v_cycle \in Nat /\ v_cycle < ShutterRange /\ i \in Nat /\ i < WordModulus
  BY <1>0, SensorAssumption DEF Word
<1>2. LastLine \in Nat /\ LastLine < WordModulus
  BY <1>0, <1>1, SMT DEF LastLine, Sub
<1>3. Sub(v_cycle, i) \in Nat
  BY <1>1, SMT DEF Sub
<1>4. CalcSnsValidIntt(i) \in Word
  BY <1>1, <1>2 DEF CalcSnsValidIntt, Least, Word
<1>5. CalcSnsValidGain(i) \in Word
  BY <1>0, <1>1 DEF CalcSnsValidGain, Least, Largest, Word
<1>6. ShutterStart(i) \in Nat
  BY <1>2, <1>3 DEF ShutterStart, Least, Largest
<1> QED
  BY <1>4, <1>5, <1>6

(* How each callback leaves the registers and the library's words.         *)
BytesKept ==
    /\ chip' \in [Registers -> Byte]
    /\ exposure' \in Word /\ gain' \in Word /\ awb' \in AwbGains
    /\ ret' \in {"none", "found", "missing"}
    /\ wanted' = None \/ wanted' \in Word
    /\ wantedGain' = None \/ wantedGain' \in Word

LEMMA BytesStep ==
    ASSUME SensorTypeOK, v_cycle \in Nat, v_cycle < ShutterRange, SensorNext
    PROVE  BytesKept
<1>0. /\ chip \in [Registers -> Byte] /\ exposure \in Word /\ gain \in Word
      /\ awb \in AwbGains
      /\ wanted = None \/ wanted \in Word
      /\ wantedGain = None \/ wantedGain \in Word
  BY DEF SensorTypeOK
<1>1. CASE Sensor_Isconnect
  <2>1. ret' \in {"found", "missing"}
    BY <1>1 DEF Sensor_Isconnect, Found
  <2> QED
    BY <1>0, <1>1, <2>1 DEF Sensor_Isconnect, BytesKept
<1>2. ASSUME NEW format \in {515, 516}, Sensor_Init(format) PROVE BytesKept
  <2>1. chip' \in [Registers -> Byte]
    BY <1>0, <1>2, TableBytes, TransferBytes DEF Sensor_Init
  <2> QED
    BY <1>0, <1>2, <2>1 DEF Sensor_Init, BytesKept
<1>3. ASSUME NEW format \in {515, 516}, SetSensorFmt(format) PROVE BytesKept
  <2> DEFINE w == [r \in DOMAIN Table(format) \cup {"STREAM_EN"} |->
                      IF r = "STREAM_EN" THEN 1 ELSE Table(format)[r]]
  <2>1. \A r \in DOMAIN w : w[r] \in Byte
    BY TableBytes DEF Byte
  <2> HIDE DEF w
  <2>2. PICK d : \E arrived \in Arriving(d, DOMAIN w) : chip' = Written(chip, w, arrived)
    BY <1>3 DEF SetSensorFmt, w
  <2>3. chip' \in [Registers -> Byte]
    BY <1>0, <2>1, <2>2, ArrivingWrites, WrittenBytes
  <2>4. /\ exposure' = exposure /\ gain' = gain /\ awb' = awb /\ ret' = "none"
        /\ wanted' = None /\ wantedGain' = None
    BY <1>3 DEF SetSensorFmt
  <2> QED
    BY <1>0, <2>3, <2>4 DEF BytesKept
<1>4. CASE Sensor_DeInit
  <2> DEFINE w == [STANDBY |-> 1]
  <2>1. \A r \in DOMAIN w : w[r] \in Byte
    BY DEF Byte
  <2>2. chip' \in [Registers -> Byte]
    BY <1>0, <1>4, <2>1, TransferBytes DEF Sensor_DeInit
  <2> QED
    BY <1>0, <1>4, <2>2 DEF Sensor_DeInit, BytesKept
<1>5. CASE Sensor_Kick
  <2> DEFINE w == [STREAM_EN |-> 1]
  <2>1. \A r \in DOMAIN w : w[r] \in Byte
    BY DEF Byte
  <2>2. chip' \in [Registers -> Byte]
    BY <1>0, <1>5, <2>1, TransferBytes DEF Sensor_Kick
  <2> QED
    BY <1>0, <1>5, <2>2 DEF Sensor_Kick, library, BytesKept
<1>6. ASSUME NEW poke \in Pokes, SetSensorReg(poke[1], poke[2]) PROVE BytesKept
  <2> DEFINE w == [x \in {poke[1]} |-> poke[2]]
  <2>1. poke[2] \in Byte
    BY SensorAssumption
  <2>2. \A r \in DOMAIN w : w[r] \in Byte
    BY <2>1
  <2>3. DOMAIN w = {poke[1]}
    OBVIOUS
  <2>4. PICK arrived \in Arriving(dev, {poke[1]}) : chip' = Written(chip, w, arrived)
    BY <1>6 DEF SetSensorReg
  <2> HIDE DEF w
  <2>5. chip' \in [Registers -> Byte]
    BY <1>0, <2>2, <2>3, <2>4, ArrivingWrites, WrittenBytes
  <2> QED
    BY <1>0, <1>6, <2>5 DEF SetSensorReg, library, BytesKept
<1>7. ASSUME NEW mode \in Modes, SetSensorFlipMirror(mode) PROVE BytesKept
  <2> DEFINE byte(val) == 4 * ((val % 256) \div 4) + 2 * (mode % 2) + ((mode \div 2) % 2)
             w(val) == [FLIP_MIRROR |-> byte(val)]
  <2>1. PICK val \in Reading(dev, chip, "FLIP_MIRROR") :
           \E arrived \in Arriving(dev, {"FLIP_MIRROR"}) :
              chip' = Written(chip, w(val), arrived)
    BY <1>7 DEF SetSensorFlipMirror
  <2>2. "FLIP_MIRROR" \in Registers
    BY DEF Registers
  <2>3. val \in Nat
    BY <1>0, <2>1, <2>2, ReadingNat
  <2>4. mode \in Nat
    BY SensorAssumption
  <2>5. byte(val) \in Byte
    BY <2>3, <2>4, FlipMirrorByte
  <2> HIDE DEF byte
  <2>6. DOMAIN w(val) = {"FLIP_MIRROR"} /\ \A r \in DOMAIN w(val) : w(val)[r] \in Byte
    BY <2>5
  <2> HIDE DEF w
  <2>7. chip' \in [Registers -> Byte]
    BY <1>0, <2>1, <2>6, ArrivingWrites, WrittenBytes
  <2> QED
    BY <1>0, <1>7, <2>7 DEF SetSensorFlipMirror, library, BytesKept
<1>8. ASSUME NEW g \in AwbGains, SetSensorAwbGain(g) PROVE BytesKept
  BY <1>0, <1>8 DEF SetSensorAwbGain, BytesKept
<1>9. ASSUME NEW i \in Word, NEW want, want = None \/ want \in Word, SetIntt(i, want)
      PROVE  BytesKept
  <2> DEFINE val == ShutterStart(i)
             w == [EXP_HI |-> (val \div 65536) % 256, EXP_MID |-> (val \div 256) % 256,
                   EXP_LO |-> val % 256]
  <2>1. val \in Nat
    BY LibraryWords
  <2> HIDE DEF val
  <2>2. \A r \in DOMAIN w : w[r] \in Byte
    BY <2>1, ShutterBytes
  <2>3. Transfer(w)
    BY <1>9 DEF SetIntt, val
  <2> HIDE DEF w
  <2>4. chip' \in [Registers -> Byte]
    BY <1>0, <2>2, <2>3, TransferBytes
  <2>5. exposure' = i /\ gain' = gain /\ awb' = awb /\ ret' = "none" /\ wanted' = want
        /\ wantedGain' = wantedGain
    BY <1>9 DEF SetIntt
  <2> QED
    BY <1>0, <1>9, <2>4, <2>5 DEF BytesKept
<1>10. ASSUME NEW g \in Word, NEW want, want = None \/ want \in Word, SetGain(g, want)
       PROVE  BytesKept
  <2>1. g \in Nat
    BY SensorAssumption DEF Word
  <2>2. chip' \in [Registers -> Byte]
    BY <1>0, <1>10, <2>1, GainBytesBytes, TransferBytes DEF SetGain
  <2>3. exposure' = exposure /\ gain' = g /\ awb' = awb /\ ret' = "none" /\ wanted' = wanted
        /\ wantedGain' = want
    BY <1>10 DEF SetGain
  <2> QED
    BY <1>0, <1>10, <2>2, <2>3 DEF BytesKept
<1>11. ASSUME NEW i \in Intts, SetIntt(i, None) \/ AdjustIntt(i) PROVE BytesKept
  <2>1. i \in Word /\ CalcSnsValidIntt(i) \in Word
    <3>1. i \in Word
      BY SensorAssumption DEF Word
    <3> QED
      BY <3>1, LibraryWords
  <2> QED
    BY <1>9, <1>11, <2>1 DEF AdjustIntt
<1>12. ASSUME NEW g \in Gains, SetGain(g, None) \/ AdjustGain(g) PROVE BytesKept
  <2>1. g \in Word /\ CalcSnsValidGain(g) \in Word
    <3>1. g \in Word
      BY SensorAssumption DEF Word
    <3> QED
      BY <3>1, LibraryWords
  <2> QED
    BY <1>10, <1>12, <2>1 DEF AdjustGain
<1>13. ASSUME NEW h \in FrameHs, SetSnsFrameH(h) PROVE BytesKept
  <2> DEFINE frame_h == Largest(h, 1125)
  <2>1. frame_h \in Nat
    BY SensorAssumption DEF Largest
  <2> HIDE DEF frame_h
  <2>2. frame_h \div 256 \in Nat
    BY <2>1, LowByte
  <2>3. (frame_h \div 256) % 256 \in Byte /\ frame_h % 256 \in Byte
    BY <2>1, <2>2, LowByte
  <2>4. \A r \in DOMAIN FrameBytes(frame_h) : FrameBytes(frame_h)[r] \in Byte
    BY <2>3 DEF FrameBytes
  <2>5. Transfer(FrameBytes(frame_h))
    BY <1>13 DEF SetSnsFrameH, frame_h
  <2>6. chip' \in [Registers -> Byte]
    BY <1>0, <2>4, <2>5, TransferBytes
  <2> QED
    BY <1>0, <1>13, <2>6 DEF SetSnsFrameH, BytesKept
<1> QED
  BY <1>1, <1>2, <1>3, <1>4, <1>5, <1>6, <1>7, <1>8, <1>11, <1>12, <1>13 DEF SensorNext

LEMMA RangeNat == ShutterRange \in Nat
BY DEF ShutterRange

LEMMA TypesStep ==
    ASSUME BusInv, ValueInv, SensorTypeOK, [SensorNext]_sensorVars
    PROVE  SensorTypeOK'
<1>1. CASE UNCHANGED sensorVars
  BY <1>1 DEF SensorTypeOK, sensorVars, library, history
<1>2. CASE SensorNext
  <2>1. BusInv' /\ ValueInv'
    BY BusStep, ValueStep
  <2>2. BytesKept
    BY <1>2, BytesStep DEF ValueInv
  <2>3. v_cycle' \in 0 .. ShutterRange - 1
    BY <2>1, RangeNat DEF ValueInv
  <2>4. site' \in Sites /\ dev' \in Device /\ sound' \in BOOLEAN
    BY <2>1 DEF BusInv, ValueInv
  <2> QED
    BY <2>2, <2>3, <2>4 DEF BytesKept, SensorTypeOK
<1> QED
  BY <1>1, <1>2

LEMMA InitialTypes == SensorInit => SensorTypeOK
<1> SUFFICES ASSUME SensorInit
             PROVE  SensorTypeOK
  OBVIOUS
<1>1. chip \in [Registers -> Byte]
  BY DEF SensorInit, PowerOn, Byte
<1>2. v_cycle = 2700 /\ exposure = 0 /\ gain = 64 /\ awb \in AwbGains
  BY SensorAssumption DEF SensorInit
<1>3. v_cycle \in 0 .. ShutterRange - 1
  <2>1. 2700 < ShutterRange
    BY SMT DEF ShutterRange
  <2> QED
    BY <1>2, <2>1, RangeNat
<1>4. exposure \in Word /\ gain \in Word
  <2>1. 64 < ShutterRange
    BY SMT DEF ShutterRange
  <2>2. 64 < WordModulus /\ WordModulus \in Nat
    BY <2>1, RangeNat, SensorAssumption
  <2> QED
    BY <1>2, <2>2 DEF Word
<1>5. site \in Sites /\ dev \in Device
  BY DEF SensorInit, Closed, Device
<1>6. ret = "none" /\ sound = FALSE /\ wanted = None /\ wantedGain = None
  BY DEF SensorInit
<1> QED
  BY <1>1, <1>2, <1>3, <1>4, <1>5, <1>6 DEF SensorTypeOK

(***************************************************************************)
(* Every register of the sensor holds a byte and every variable of the     *)
(* library a word of its width, after any callback with any argument: what *)
(* is written is masked, and the index of gain_lut fits its register.      *)
(***************************************************************************)
THEOREM SensorTypes == SensorSpec => []SensorTypeOK
<1>1. SensorInit => SensorTypeOK
  BY InitialTypes
<1>2. BusInv /\ ValueInv /\ SensorTypeOK /\ [SensorNext]_sensorVars => SensorTypeOK'
  BY TypesStep
<1> QED
  BY <1>1, <1>2, LibraryInductive, PTL DEF SensorSpec

-----------------------------------------------------------------------------
(* The probe finds what is there.                                          *)

(* On a bus without faults a device at a CV2003 hears both of its IDs.     *)
LEMMA SeenWhereItIs ==
    ASSUME ~Faults, NEW d \in Device, d.open, d.addr \in Addr, site[d.addr] = "cv2003",
           NEW p1 \in Pid1(d), NEW p2 \in Pid2(d)
    PROVE  Detected(p1, p2)
<1>1. At(d) = "cv2003"
  BY DEF At
<1>2. p1 = 2 /\ p2 = 3
  BY <1>1 DEF Pid1, Pid2, Heard
<1> QED
  BY <1>2 DEF Detected, IsCv2003

(* The other steps say nothing of a sensor that is missing.                *)
LEMMA ProbeStep ==
    ASSUME BusInv, ProbeComplete, [SensorNext]_sensorVars
    PROVE  ProbeComplete'
<1>0. /\ dev \in Device /\ (dev.held = IF dev.open THEN 1 ELSE 0)
      /\ dev.open => dev.addr = 53
      /\ 53 \in Addr /\ 54 \in Addr
  BY Dev
<1>1. site' = site
  BY QuietSteps, LoudSteps, StepKinds
<1>2. ASSUME ret' = ret \/ ret' = "none" PROVE ProbeComplete'
  BY <1>1, <1>2 DEF ProbeComplete
<1>3. CASE Quiet
  BY <1>2, <1>3, QuietSteps
<1>4. CASE Sensor_DeInit
  BY <1>2, <1>4 DEF Sensor_DeInit
<1>5. ASSUME NEW format \in {515, 516}, SetSensorFmt(format) PROVE ProbeComplete'
  BY <1>2, <1>5 DEF SetSensorFmt
<1>6. CASE Sensor_Isconnect
  <2> SUFFICES ASSUME ret' = "missing", ~Faults
               PROVE  site[53] # "cv2003" /\ site[54] # "cv2003"
    BY <1>1 DEF ProbeComplete, Addr
  <2>0. PICK d1 \in SensorDevice_Init(dev, 53) : \E p1 \in Pid1(d1), p2 \in Pid2(d1) :
           IF Detected(p1, p2) THEN Found(53, d1)
           ELSE \E d2 \in SensorDevice_Init(AfterProbe(d1), 54) :
                \E q1 \in Pid1(d2), q2 \in Pid2(d2) :
                   IF Detected(q1, q2) THEN Found(54, d2)
                   ELSE dev' = AfterProbe(d2) /\ ret' = "missing"
    BY <1>6 DEF Sensor_Isconnect
  <2>1. PICK p1 \in Pid1(d1), p2 \in Pid2(d1) :
           IF Detected(p1, p2) THEN Found(53, d1)
           ELSE \E d2 \in SensorDevice_Init(AfterProbe(d1), 54) :
                \E q1 \in Pid1(d2), q2 \in Pid2(d2) :
                   IF Detected(q1, q2) THEN Found(54, d2)
                   ELSE dev' = AfterProbe(d2) /\ ret' = "missing"
    BY <2>0
  <2>2. ~Detected(p1, p2)
    BY <2>1 DEF Found
  <2>3. PICK d2 \in SensorDevice_Init(AfterProbe(d1), 54) :
           \E q1 \in Pid1(d2), q2 \in Pid2(d2) :
              IF Detected(q1, q2) THEN Found(54, d2)
              ELSE dev' = AfterProbe(d2) /\ ret' = "missing"
    BY <2>1, <2>2
  <2>4. PICK q1 \in Pid1(d2), q2 \in Pid2(d2) :
           IF Detected(q1, q2) THEN Found(54, d2)
           ELSE dev' = AfterProbe(d2) /\ ret' = "missing"
    BY <2>3
  <2>5. ~Detected(q1, q2)
    BY <2>4 DEF Found
  <2>6. d1 \in Device /\ (d1.held = IF d1.open THEN 1 ELSE 0) /\ d1.addr = 53
    BY <1>0, InitKeeps
  <2>7. d1.open
    BY <1>0 DEF SensorDevice_Init, Opened
  <2>8. AfterProbe(d1) = [open |-> FALSE, held |-> 0, addr |-> 53] /\ AfterProbe(d1) \in Device
    BY <2>6, CloseKeeps DEF AfterProbe
  <2>9. ~AfterProbe(d1).open /\ AfterProbe(d1).held = 0
    BY <2>8
  <2>10. d2 \in Device /\ d2.addr = 54
    BY <1>0, <2>8, <2>9, InitKeeps
  <2>11. d2.open
    BY <2>9 DEF SensorDevice_Init, Opened
  <2>12. site[53] # "cv2003"
    BY <1>0, <2>2, <2>6, <2>7, SeenWhereItIs
  <2>13. site[54] # "cv2003"
    BY <1>0, <2>5, <2>10, <2>11, SeenWhereItIs
  <2> QED
    BY <2>12, <2>13
<1> QED
  BY <1>3, <1>4, <1>5, <1>6, StepKinds

(***************************************************************************)
(* Without faults on the bus Sensor_Isconnect never says that a sensor     *)
(* which is at 0x35 or 0x36 is missing, whatever was open before it.       *)
(***************************************************************************)
THEOREM ProbeMissesNone == SensorSpec => []ProbeComplete
<1>1. SensorInit => ProbeComplete
  BY DEF SensorInit, ProbeComplete
<1>2. BusInv /\ ValueInv /\ ProbeComplete /\ [SensorNext]_sensorVars => ProbeComplete'
  BY ProbeStep
<1> QED
  BY <1>1, <1>2, LibraryInductive, PTL DEF SensorSpec

-----------------------------------------------------------------------------
(* The gain.                                                               *)

(* gain_lut is four arithmetic progressions end to end.                    *)
LEMMA LutParts ==
    ASSUME NEW y \in GainLut
    PROVE  /\ y \in 64 .. 1024
           /\ \/ \E k \in 0 .. 23 : y = 64 + 4 * k
              \/ \E k \in 0 .. 11 : y = 160 + 8 * k
              \/ \E k \in 0 .. 15 : y = 256 + 16 * k
              \/ \E k \in 0 .. 16 : y = 512 + 32 * k
<1>1. \/ \E k \in 0 .. 23 : y = 64 + 4 * k
      \/ \E k \in 0 .. 11 : y = 160 + 8 * k
      \/ \E k \in 0 .. 15 : y = 256 + 16 * k
      \/ \E k \in 0 .. 16 : y = 512 + 32 * k
  BY DEF GainLut
<1>2. y \in 64 .. 1024
  BY <1>1
<1> QED
  BY <1>1, <1>2

(* Where one progression ends the next begins.                             *)
LEMMA LutMarks == 160 \in GainLut /\ 256 \in GainLut /\ 512 \in GainLut /\ 1024 \in GainLut
<1>1. 0 \in 0 .. 11 /\ 0 \in 0 .. 15 /\ 0 \in 0 .. 16 /\ 16 \in 0 .. 16
  OBVIOUS
<1>2. 160 = 160 + 8 * 0 /\ 256 = 256 + 16 * 0 /\ 512 = 512 + 32 * 0 /\ 1024 = 512 + 32 * 16
  OBVIOUS
<1> QED
  BY <1>1, <1>2 DEF GainLut

(* The smallest entry that is not below a gain of the table's range.       *)
LEMMA LutCeiling ==
    ASSUME NEW c \in 64 .. 1024
    PROVE  \E x \in GainLut : x >= c /\ \A y \in GainLut : y >= c => y >= x
<1>1. CASE 64 <= c /\ c <= 160
  <2> DEFINE k == (c - 61) \div 4
             x == 64 + 4 * k
  <2>1. k \in 0 .. 24 /\ x >= c /\ x < c + 4
    BY <1>1, SMT
  <2> HIDE DEF k
  <2>2. x \in GainLut
    <3>1. CASE k \in 0 .. 23
      BY <3>1 DEF GainLut
    <3>2. CASE k = 24
      <4>1. x = 160
        BY <3>2
      <4> QED
        BY <4>1, LutMarks
    <3> QED
      BY <2>1, <3>1, <3>2
  <2>3. ASSUME NEW y \in GainLut, y >= c PROVE y >= x
    BY <2>1, <2>3, <1>1, LutParts, SMT
  <2> QED
    BY <2>1, <2>2, <2>3
<1>2. CASE 161 <= c /\ c <= 256
  <2> DEFINE k == (c - 153) \div 8
             x == 160 + 8 * k
  <2>1. k \in 0 .. 12 /\ x >= c /\ x < c + 8
    BY <1>2, SMT
  <2> HIDE DEF k
  <2>2. x \in GainLut
    <3>1. CASE k \in 0 .. 11
      BY <3>1 DEF GainLut
    <3>2. CASE k = 12
      <4>1. x = 256
        BY <3>2
      <4> QED
        BY <4>1, LutMarks
    <3> QED
      BY <2>1, <3>1, <3>2
  <2>3. ASSUME NEW y \in GainLut, y >= c PROVE y >= x
    BY <2>1, <2>3, <1>2, LutParts, SMT
  <2> QED
    BY <2>1, <2>2, <2>3
<1>3. CASE 257 <= c /\ c <= 512
  <2> DEFINE k == (c - 241) \div 16
             x == 256 + 16 * k
  <2>1. k \in 0 .. 16 /\ x >= c /\ x < c + 16
    BY <1>3, SMT
  <2> HIDE DEF k
  <2>2. x \in GainLut
    <3>1. CASE k \in 0 .. 15
      BY <3>1 DEF GainLut
    <3>2. CASE k = 16
      <4>1. x = 512
        BY <3>2
      <4> QED
        BY <4>1, LutMarks
    <3> QED
      BY <2>1, <3>1, <3>2
  <2>3. ASSUME NEW y \in GainLut, y >= c PROVE y >= x
    BY <2>1, <2>3, <1>3, LutParts, SMT
  <2> QED
    BY <2>1, <2>2, <2>3
<1>4. CASE 513 <= c
  <2> DEFINE k == (c - 481) \div 32
             x == 512 + 32 * k
  <2>1. k \in 0 .. 16 /\ x >= c /\ x < c + 32
    BY <1>4, SMT
  <2> HIDE DEF k
  <2>2. x \in GainLut
    BY <2>1 DEF GainLut
  <2>3. ASSUME NEW y \in GainLut, y >= c PROVE y >= x
    BY <2>1, <2>3, <1>4, LutParts, SMT
  <2> QED
    BY <2>1, <2>2, <2>3
<1> QED
  BY <1>1, <1>2, <1>3, <1>4

(* A gain as CalcSnsValidGain leaves it, with the index SetGain looks up.  *)
Selects(index, asked) ==
    \E x \in GainLut :
       /\ index = Cardinality({y \in GainLut : y < x})
       /\ x >= Least(asked, 1024)
       /\ \A y \in GainLut : y >= asked => y >= x

LEMMA ValidGainSelects ==
    ASSUME NEW g \in Nat
    PROVE  LET c == CalcSnsValidGain(g)
           IN  /\ Selects(GainIndex(c), g)
               /\ GainMode(c) = 16 /\ ~KeepsMode(c)
<1> DEFINE c == CalcSnsValidGain(g)
<1>1. c \in 64 .. 1024 /\ c >= Least(g, 1024) /\ (\A y \in 64 .. 1024 : y >= g => y >= c)
  BY SMT DEF CalcSnsValidGain, Least, Largest
<1> HIDE DEF c
<1>2. PICK x \in GainLut : x >= c /\ \A y \in GainLut : y >= c => y >= x
  BY <1>1, LutCeiling
<1>3. x \in 64 .. 1024
  BY LutParts
<1>4. {y \in GainLut : y < x} = {y \in GainLut \ {1024} : y < c}
  <2>1. ASSUME NEW y \in GainLut PROVE y < x <=> y # 1024 /\ y < c
    <3>1. y \in 64 .. 1024
      BY LutParts
    <3> QED
      BY <1>1, <1>2, <1>3, <3>1
  <2> QED
    BY <2>1
<1>5. GainIndex(c) = Cardinality({y \in GainLut : y < x})
  BY <1>4 DEF GainIndex
<1>6. x >= Least(g, 1024)
  BY <1>1, <1>2, <1>3 DEF Least
<1>7. \A y \in GainLut : y >= g => y >= x
  BY <1>1, <1>2, LutParts
<1>8. GainMode(c) = 16 /\ ~KeepsMode(c)
  BY <1>1 DEF GainMode, KeepsMode
<1> QED
  BY <1>5, <1>6, <1>7, <1>8 DEF Selects, c

(* Steps that leave the two registers, and what was asked, alone.          *)
LEMMA GainUntouched ==
    ASSUME GainAsAsked, sound' => sound, wantedGain' = wantedGain,
           chip'["GAIN_MODE"] = chip["GAIN_MODE"] \/ chip'["GAIN_MODE"] = 16,
           chip'["GAIN_IDX"] = chip["GAIN_IDX"]
    PROVE  GainAsAsked'
BY DEF GainAsAsked

(* A transfer to other registers.                                          *)
LEMMA OtherTransfer ==
    ASSUME GainAsAsked, sound \in BOOLEAN, wantedGain' = wantedGain, NEW w, Transfer(w),
           "GAIN_IDX" \notin DOMAIN w, "GAIN_MODE" \in DOMAIN w => w["GAIN_MODE"] = 16
    PROVE  GainAsAsked'
<1>1. "GAIN_IDX" \in Registers /\ "GAIN_MODE" \in Registers
  BY DEF Registers
<1>2. /\ sound' => sound
      /\ chip'["GAIN_IDX"] = chip["GAIN_IDX"]
      /\ chip'["GAIN_MODE"] = chip["GAIN_MODE"] \/ chip'["GAIN_MODE"] = 16
  BY <1>1, TransferWrites
<1> QED
  BY <1>2, GainUntouched

(* Nothing is asked after a format or an unadjusted gain.                  *)
LEMMA NothingAsked ==
    ASSUME wantedGain' = None \/ sound' = FALSE
    PROVE  GainAsAsked'
BY DEF GainAsAsked

LEMMA AdjustGainAsAsked ==
    ASSUME sound \in BOOLEAN, NEW g \in Nat, AdjustGain(g)
    PROVE  GainAsAsked'
<1> DEFINE c == CalcSnsValidGain(g)
           w == GainBytes(c)
<1>1. Selects(GainIndex(c), g) /\ GainMode(c) = 16 /\ ~KeepsMode(c)
  BY ValidGainSelects
<1>2. Transfer(w) /\ wantedGain' = g
  BY DEF AdjustGain, SetGain
<1> HIDE DEF c
<1>3. /\ DOMAIN w = {"GAIN_IDX", "GAIN_HI", "GAIN_LO", "GAIN_MODE"}
      /\ w["GAIN_IDX"] = GainIndex(c) /\ w["GAIN_MODE"] = 16
  BY <1>1 DEF GainBytes
<1> HIDE DEF w
<1>4. "GAIN_IDX" \in Registers /\ "GAIN_MODE" \in Registers
  BY DEF Registers
<1>5. ASSUME sound'
      PROVE  chip'["GAIN_IDX"] = GainIndex(c) /\ chip'["GAIN_MODE"] = 16
  BY <1>2, <1>3, <1>4, <1>5, TransferWrites
<1> QED
  BY <1>1, <1>2, <1>5 DEF GainAsAsked, Selects

LEMMA GainStep ==
    ASSUME SensorTypeOK, GainAsAsked, [SensorNext]_sensorVars
    PROVE  GainAsAsked'
<1>0. sound \in BOOLEAN
  BY DEF SensorTypeOK
<1>1. CASE UNCHANGED sensorVars
  BY <1>1 DEF GainAsAsked, sensorVars, history
<1>2. CASE Sensor_Isconnect
  BY <1>2, GainUntouched DEF Sensor_Isconnect
<1>3. ASSUME NEW format \in {515, 516}, Sensor_Init(format) PROVE GainAsAsked'
  <2> DEFINE w == Table(format)
  <2>1. "GAIN_IDX" \notin DOMAIN w /\ w["GAIN_MODE"] = 16
    BY DEF Table
  <2>2. Transfer(w) /\ wantedGain' = wantedGain
    BY <1>3 DEF Sensor_Init
  <2> HIDE DEF w
  <2> QED
    BY <1>0, <2>1, <2>2, OtherTransfer
<1>4. ASSUME NEW format \in {515, 516}, SetSensorFmt(format) PROVE GainAsAsked'
  <2>1. wantedGain' = None
    BY <1>4 DEF SetSensorFmt
  <2> QED
    BY <2>1, NothingAsked
<1>5. CASE Sensor_DeInit
  <2> DEFINE w == [STANDBY |-> 1]
  <2>1. "GAIN_IDX" \notin DOMAIN w /\ "GAIN_MODE" \notin DOMAIN w
    OBVIOUS
  <2>2. Transfer(w) /\ wantedGain' = wantedGain
    BY <1>5 DEF Sensor_DeInit
  <2> HIDE DEF w
  <2> QED
    BY <1>0, <2>1, <2>2, OtherTransfer
<1>6. CASE Sensor_Kick
  <2> DEFINE w == [STREAM_EN |-> 1]
  <2>1. "GAIN_IDX" \notin DOMAIN w /\ "GAIN_MODE" \notin DOMAIN w
    OBVIOUS
  <2>2. Transfer(w) /\ wantedGain' = wantedGain
    BY <1>6 DEF Sensor_Kick
  <2> HIDE DEF w
  <2> QED
    BY <1>0, <2>1, <2>2, OtherTransfer
<1>7. ASSUME NEW r, NEW val, SetSensorReg(r, val) PROVE GainAsAsked'
  <2>1. sound' = FALSE
    BY <1>7 DEF SetSensorReg
  <2> QED
    BY <2>1, NothingAsked
<1>8. ASSUME NEW mode \in Modes, SetSensorFlipMirror(mode) PROVE GainAsAsked'
  <2>1. PICK val \in Reading(dev, chip, "FLIP_MIRROR") :
           \E arrived \in Arriving(dev, {"FLIP_MIRROR"}) : \E w :
              /\ chip' = Written(chip, w, arrived)
              /\ sound' = (sound /\ val # NoAnswer /\ arrived # {})
    BY <1>8 DEF SetSensorFlipMirror
  <2>2. PICK arrived \in Arriving(dev, {"FLIP_MIRROR"}) : \E w :
           /\ chip' = Written(chip, w, arrived)
           /\ sound' = (sound /\ val # NoAnswer /\ arrived # {})
    BY <2>1
  <2>3. arrived \subseteq {"FLIP_MIRROR"}
    BY <2>2, ArrivingWrites
  <2>4. chip'["GAIN_IDX"] = chip["GAIN_IDX"] /\ chip'["GAIN_MODE"] = chip["GAIN_MODE"]
    BY <2>2, <2>3 DEF Written, Registers
  <2>5. (sound' => sound) /\ wantedGain' = wantedGain
    BY <1>8, <2>2 DEF SetSensorFlipMirror
  <2> QED
    BY <2>4, <2>5, GainUntouched
<1>9. ASSUME NEW g \in AwbGains, SetSensorAwbGain(g) PROVE GainAsAsked'
  BY <1>9, GainUntouched DEF SetSensorAwbGain
<1>10. ASSUME NEW i, NEW want, SetIntt(i, want) PROVE GainAsAsked'
  <2> DEFINE val == ShutterStart(i)
             w == [EXP_HI |-> (val \div 65536) % 256, EXP_MID |-> (val \div 256) % 256,
                   EXP_LO |-> val % 256]
  <2>1. "GAIN_IDX" \notin DOMAIN w /\ "GAIN_MODE" \notin DOMAIN w
    OBVIOUS
  <2>2. Transfer(w) /\ wantedGain' = wantedGain
    BY <1>10 DEF SetIntt
  <2> HIDE DEF w
  <2> QED
    BY <1>0, <2>1, <2>2, OtherTransfer
<1>11. ASSUME NEW g \in Gains, SetGain(g, None) \/ AdjustGain(g) PROVE GainAsAsked'
  <2>1. CASE SetGain(g, None)
    <3>1. wantedGain' = None
      BY <2>1 DEF SetGain
    <3> QED
      BY <3>1, NothingAsked
  <2>2. CASE AdjustGain(g)
    <3>1. g \in Nat
      BY SensorAssumption
    <3> QED
      BY <1>0, <2>2, <3>1, AdjustGainAsAsked
  <2> QED
    BY <1>11, <2>1, <2>2
<1>12. ASSUME NEW h \in FrameHs, SetSnsFrameH(h) PROVE GainAsAsked'
  <2> DEFINE w == FrameBytes(Largest(h, 1125))
  <2>1. "GAIN_IDX" \notin DOMAIN w /\ "GAIN_MODE" \notin DOMAIN w
    BY DEF FrameBytes
  <2>2. Transfer(w) /\ wantedGain' = wantedGain
    BY <1>12 DEF SetSnsFrameH
  <2> HIDE DEF w
  <2> QED
    BY <1>0, <2>1, <2>2, OtherTransfer
<1> QED
  BY <1>1, <1>2, <1>3, <1>4, <1>5, <1>6, <1>7, <1>8, <1>9, <1>10, <1>11, <1>12
     DEF SensorNext, AdjustIntt

(***************************************************************************)
(* A gain that went through CalcSnsValidGain comes to the smallest entry   *)
(* of gain_lut that is not below it, in the low gain mode, for every       *)
(* 32-bit request and whatever gains and formats were set before.          *)
(***************************************************************************)
THEOREM GainKept == SensorSpec => []GainAsAsked
<1>1. SensorInit => GainAsAsked
  BY DEF SensorInit, GainAsAsked
<1>2. SensorTypeOK /\ GainAsAsked /\ [SensorNext]_sensorVars => GainAsAsked'
  BY GainStep
<1> QED
  BY <1>1, <1>2, SensorTypes, PTL DEF SensorSpec
=============================================================================
