------------------------- MODULE MCIMessageChannel -------------------------
(* IMessageChannel for TLC: integer wire ids, their text as request ids. *)
EXTENDS IMessageChannel, TLC

CONSTANTS i1

MCRequestIds == {ToString(w) : w \in WireIds}
MCNormalized == [w \in WireIds |-> ToString(w)]
OneItem == [w \in WireIds |-> i1]

=============================================================================
