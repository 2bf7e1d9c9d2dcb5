-------------------------------- MODULE MCIsp --------------------------------
(* Small instances of the ISP's setup for TLC, whose integers end at 2^31: *)
(* addresses of 28 bits hold every pool of this size.                      *)
EXTENDS IspSetup

Size(w, h) == [width |-> w, height |-> h]

(* The sensor's, the sub streams', odd ones, and some so small that the    *)
(* window search falls below its limit or divides by zero.                 *)
SomeResolutions ==
    {Size(1920, 1080), Size(800, 576), Size(704, 576), Size(1, 1), Size(3, 5), Size(13, 4),
     Size(51, 9), Size(333, 217), Size(1279, 719), Size(2560, 1440), Size(640, 360)}
    \cup {Size(640 + 15 * k, 360 + 9 * k) : k \in 1 .. 120}

(* The last pool of 2560x1440 ends just below the end of memory. *)
SomeBases == {PoolAlign, 2560 * PoolAlign, 4013 * PoolAlign}
=============================================================================
