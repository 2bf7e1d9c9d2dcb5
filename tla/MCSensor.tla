------------------------------ MODULE MCSensor ------------------------------
(* The sensor library with a 28-bit word.                                  *)
EXTENDS Cv2003Sensor

Word28 == 268435456

Heights == {0, 66700}
Times == {0, 5000, Word28 - 1}
SomeGains == {64, 159, 1500}
OneMode == {1}
StopStream == {<<"STREAM_EN", 0>>}
AwbSet == {"boot", "set"}
BootAwb == "boot"
=============================================================================
