-------------------------- MODULE MCBridgeService --------------------------
(* BridgeService for TLC: integer wire ids, their text as request ids. *)
EXTENDS BridgeServiceProperties, TLC

CONSTANTS i1

MCRequestIds == {ToString(w) : w \in WireIds}
MCNormalized == [w \in WireIds |-> ToString(w)]
OneItem == [w \in WireIds |-> i1]

All == {"initialize", "initialized", "bridge/getPendingApprovals", "bridge/respondApproval",
        "other"}

=============================================================================
