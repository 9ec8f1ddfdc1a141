---------------------------- MODULE MCSelfHosted ----------------------------
(* Instances of the self-hosted wrapper for TLC. *)
EXTENDS SelfHosted, TLC

CONSTANTS first, second

Two == {first, second}
=============================================================================
