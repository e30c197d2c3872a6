---------------------------- MODULE MCWakeDelivery ----------------------------
(* WakeDelivery for TLC: one wake claimed again and again.                              *)
EXTENDS WakeDelivery
=============================================================================
