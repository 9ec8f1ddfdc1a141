-------------------------- MODULE MCBridgeChannel --------------------------
(* BridgeChannel for TLC. *)
EXTENDS BridgeChannelProperties, TLC

(* Phones are interchangeable; none of the properties of the runs that use *)
(* this is a liveness property.                                            *)
AnyPhone == Permutations(Phones)

=============================================================================
