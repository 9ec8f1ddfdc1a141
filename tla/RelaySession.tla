---------------------------- MODULE RelaySession ----------------------------
(***************************************************************************)
(* One session of relay/server.js as the bridge and the phones use it: a   *)
(* text frame goes to every other socket of the session that is open at    *)
(* that moment, in order, and is kept for nobody.  The bridge's socket is  *)
(* there for as long as the bridge runs.  Frames a phone sends reach the   *)
(* other phones too; those ignore them, so only the bridge's copy is here. *)
(***************************************************************************)
EXTENDS Naturals, Sequences

CONSTANTS
  Phones,       \* the phone devices
  MaxWire       \* bound: frames waiting at the bridge when a phone sends one

ASSUME MaxWireAssumption == MaxWire \in Nat

VARIABLES
  connected,    \* phones with a socket in the session
  inbox,        \* phone -> frames that have reached it and are not yet read
  toBridge      \* frames on their way to the bridge

relayVars == <<connected, inbox, toBridge>>

EmptySession ==
  /\ connected = {}
  /\ inbox = [p \in Phones |-> <<>>]
  /\ toBridge = <<>>

Join(p) ==
  /\ connected' = connected \cup {p}
  /\ inbox' = [inbox EXCEPT ![p] = <<>>]

(* The socket closes: what it has not read is gone, what it sent is not. *)
Drop(p) ==
  /\ connected' = connected \ {p}
  /\ inbox' = [inbox EXCEPT ![p] = <<>>]
  /\ UNCHANGED toBridge

(* The bridge sends frames: to every phone in the session. *)
Broadcast(frames) ==
  inbox' = [p \in Phones |-> IF p \in connected THEN inbox[p] \o frames ELSE inbox[p]]

ToBridge(frame) ==
  /\ Len(toBridge) < MaxWire
  /\ toBridge' = Append(toBridge, frame)

=============================================================================
