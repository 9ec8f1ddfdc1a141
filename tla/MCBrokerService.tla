-------------------------- MODULE MCBrokerService --------------------------
(* BrokerService for TLC: integer wire ids, and their text as request ids. *)
EXTENDS BrokerServiceProperties, TLC

CONSTANTS i1, i2

MCRequestIds == {ToString(w) : w \in WireIds}
MCNormalized == [w \in WireIds |-> ToString(w)]

(* Every request is for one item, or each for its own. *)
OneItem == [w \in WireIds |-> i1]
TwoItems == [w \in WireIds |-> IF w = 1 THEN i1 ELSE i2]

(* Processes and decisions are interchangeable in the properties of the run *)
(* that uses this; none of them is a liveness property.                    *)
Interchangeable == Permutations(Clients) \cup Permutations(Decisions)

=============================================================================
