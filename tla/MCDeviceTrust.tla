--------------------------- MODULE MCDeviceTrust ---------------------------
(* DeviceTrust for TLC. *)
EXTENDS DeviceTrust
=============================================================================
