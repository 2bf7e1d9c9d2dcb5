----------------------------- MODULE Cv2003Gain -----------------------------
(***************************************************************************)
(* How the two sensor drivers turn a gain (64 is 1x) into the registers of *)
(* the CV2003: SetGain() of libcv2003_mipi.c by a table of gains, set_gain *)
(* of cv2003_driver.c by the vendor's table, 16384 / (256 - k) but for     *)
(* three entries.                                                          *)
(***************************************************************************)
EXTENDS Integers, FiniteSets, FiniteSetsExt

Least(a, b) == IF a < b THEN a ELSE b
Largest(a, b) == IF a < b THEN b ELSE a

-----------------------------------------------------------------------------
(* libcv2003_mipi.c                                                        *)

(* gain_lut, which ascends: an entry's index is the number of those below. *)
GainLut ==
    {64 + 4 * k : k \in 0 .. 23} \cup {160 + 8 * k : k \in 0 .. 11}
    \cup {256 + 16 * k : k \in 0 .. 15} \cup {512 + 32 * k : k \in 0 .. 16}

(* Variant: an entry equal to the gain is passed over. *)
GainIndex_Past(g) == Cardinality({x \in GainLut \ {1024} : x <= g})
GainIndex(g) == Cardinality({x \in GainLut \ {1024} : x < g})

CalcSnsValidGain(g) == Least(Largest(g, 64), 1024)

RegGain(g) == Least(Largest(g \div 32, 64), 1023)

(* Gains between the two modes leave the mode as it is. *)
KeepsMode(g) == g \in 1025 .. 2047
GainMode(g) == IF g < 1025 THEN 16 ELSE 21

-----------------------------------------------------------------------------
(* cv2003_driver.c                                                         *)

TAB_SENSOR_REG_TO_GAIN ==
    [k \in 0 .. 249 |->
        CASE k = 111 -> 113 [] k = 127 -> 126 [] k = 213 -> 380 [] k = 249 -> 65535
          [] OTHER -> 16384 \div (256 - k)]

TabIndex(g) ==
    LET between == {k \in 0 .. 248 : /\ TAB_SENSOR_REG_TO_GAIN[k] <= g
                                     /\ g <= TAB_SENSOR_REG_TO_GAIN[k + 1]}
    IN  IF between = {} THEN 249 ELSE Min(between)
=============================================================================
