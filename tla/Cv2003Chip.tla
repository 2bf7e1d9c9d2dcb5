----------------------------- MODULE Cv2003Chip -----------------------------
(***************************************************************************)
(* The image sensor and the I2C bus as the two drivers see them through    *)
(* /dev/i2c-0 (src/majestic/libcv2003_mipi.c, src/sdk/lib/cv2003_driver.c).*)
(* The chip and the kernel are external; what a transfer does follows from *)
(* the drivers' use of it.                                                 *)
(***************************************************************************)
EXTENDS Integers

CONSTANT Faults  \* may open() and single transfers fail?

Addr == {53, 54}  \* 0x35, 0x36
DefaultAddr == 53

VARIABLES
    site,  \* who answers at each address
    chip   \* the sensor's registers

(* At most one of the two devices is a CV2003; "other" has its first ID.   *)
Sites == {s \in [Addr -> {"none", "cv2003", "other"}] : \E a \in Addr : s[a] # "cv2003"}

Registers == {"STANDBY", "STREAM_EN", "VCYC_LO", "VCYC_HI", "EXP_HI", "EXP_MID", "EXP_LO",
              "GAIN_MODE", "GAIN_IDX", "GAIN_HI", "GAIN_LO", "FLIP_MIRROR"}
Byte == 0 .. 255

PowerOn == [r \in Registers |-> IF r = "STANDBY" THEN 1 ELSE 0]

FrameLength(c) == 256 * c.VCYC_HI + c.VCYC_LO
Exposure(c) == 65536 * c.EXP_HI + 256 * c.EXP_MID + c.EXP_LO
Streams(c) == c.STANDBY = 0 /\ c.STREAM_EN = 1

-----------------------------------------------------------------------------
(* A driver's end of the bus: the descriptor in its variable (open), how   *)
(* many are open in fact (held), and the slave address.                    *)

Device == [open : BOOLEAN, held : Nat, addr : Addr \cup {0}]
Closed == [open |-> FALSE, held |-> 0, addr |-> 0]

(* open() of /dev/i2c-0, and the address d has when it fails; later ioctls  *)
(* do not close it again.                                                  *)
Opened(d, a, failed) ==
    {[open |-> TRUE, held |-> d.held + 1, addr |-> a]}
    \cup IF Faults THEN {[open |-> FALSE, held |-> d.held, addr |-> failed]} ELSE {}

At(d) == IF d.open /\ d.addr \in Addr THEN site[d.addr] ELSE "none"

NoAnswer == 65535

(* What a read may return when the device at d has the given value.        *)
Heard(d, value) ==
    IF At(d) = "none" THEN {NoAnswer} ELSE {value} \cup IF Faults THEN {NoAnswer} ELSE {}

Reading(d, c, r) == Heard(d, IF At(d) = "cv2003" THEN c[r] ELSE 0)

Pid1(d) == Heard(d, 2)
Pid2(d) == Heard(d, IF At(d) = "cv2003" THEN 3 ELSE 0)
IsCv2003(pid1, pid2) == pid1 \in {2, 32} /\ pid2 = 3

(* Which of the writes to the given registers the sensor may get.          *)
Arriving(d, regs) ==
    IF At(d) # "cv2003" THEN {{}} ELSE IF Faults THEN SUBSET regs ELSE {regs}

Written(c, w, arrived) == [r \in Registers |-> IF r \in arrived THEN w[r] ELSE c[r]]
=============================================================================
