---------------------------- MODULE MCLaunchAgent ----------------------------
(* Instances of the launchd agents for TLC. *)
EXTENDS LaunchAgent, TLC

CONSTANTS agent, operator

Both == {agent, operator}
=============================================================================
