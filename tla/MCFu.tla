-------------------------------- MODULE MCFu --------------------------------
(* The packetizer with the program's own limit, at every length near a     *)
(* multiple of the fragment's size.                                        *)
EXTENDS FuPacketizer

NearBoundaries == {1198 * k + d : k \in 1 .. 4, d \in -2 .. 4} \cup {1, 2}
=============================================================================
