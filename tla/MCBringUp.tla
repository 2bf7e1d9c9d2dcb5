----------------------------- MODULE MCBringUp ------------------------------
(* mini_streamer's bring-up with a 28-bit word. *)
EXTENDS BringUp

Word28 == 268435456
=============================================================================
