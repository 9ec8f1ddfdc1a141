--------------------------- MODULE BridgeChannel ---------------------------
(***************************************************************************)
(* The bridge's secure transport, the relay session and the phones: one    *)
(* run of the bridge, with phones that pair, lose their socket, come back  *)
(* with the secret they are trusted by, and take what is sent to them.     *)
(*                                                                         *)
(* A phone follows the step-by-step flow of the protocol document as the   *)
(* transport's tests act it out.  It is outside this repository: the       *)
(* official app is another project's, and the experimental one under ios/  *)
(* never has the bridge's session key.                                     *)
(***************************************************************************)
EXTENDS SecureTransport

CONSTANTS
  MaxHellos,    \* bound: nonces drawn when a phone says hello
  MaxSeq,       \* bound: application messages the bridge queues
  MaxCounter,   \* bound: envelopes a phone sends in a session
  Repeats       \* TRUE: an envelope of a phone may arrive again, at any later time

ASSUME BoundsAssumption ==
  MaxHellos \in Nat /\ MaxSeq \in Nat /\ MaxCounter \in Nat /\ Repeats \in BOOLEAN

VARIABLES
  phone,        \* phone -> where it is in its connection
  shared,       \* phone -> the secret it believes to be trusted by, or "none"
  lastApplied,  \* phone -> the last bridgeOutboundSeq it has applied
  aired         \* the envelopes phones have sent

phoneVars == <<phone, shared, lastApplied, aired>>
vars == <<relayVars, transportVars, phoneVars>>

Away == [step |-> "away"]

Device ==
  {Away}
    \cup [step : {"hello"}, mode : Modes, cnonce : Nat]
    \cup [step : {"auth", "ready"}, key : Key, counter : Nat]

TypeOK ==
  /\ connected \subseteq Phones
  /\ inbox \in [Phones -> Seq(BridgeFrame)]
  /\ toBridge \in Seq(PhoneFrame)
  /\ TransportTypeOK
  /\ phone \in [Phones -> Device]
  /\ shared \in [Phones -> SharedSecrets \cup {"none"}]
  /\ lastApplied \in [Phones -> Nat]
  /\ aired \subseteq PhoneEnvelope

Init ==
  /\ EmptySession
  /\ NewTransport
  /\ phone = [p \in Phones |-> Away]
  /\ shared = trusted
  /\ lastApplied = [p \in Phones |-> 0]
  /\ aired = {}

-----------------------------------------------------------------------------

PhoneStep == UNCHANGED <<pairing, trusted, handshake, session, nextEpoch, nextSeq, buffer, heard>>

(* The proof of a hello: over the code in the pairing payload, or over the *)
(* secret of an earlier pairing.                                           *)
ProofSecret(p, mode) == IF mode = "qr_bootstrap" THEN "code" ELSE shared[p]

Connect(p, mode) ==
  /\ phone[p] = Away
  /\ nonces < MaxHellos
  /\ mode = "trusted_reconnect" => shared[p] # "none"
  /\ nonces' = nonces + 1
  /\ phone' = [phone EXCEPT ![p] = [step |-> "hello", mode |-> mode, cnonce |-> nonces']]
  /\ Join(p)
  /\ ToBridge([kind |-> "clientHello", phone |-> p, mode |-> mode,
               secret |-> ProofSecret(p, mode), cnonce |-> nonces'])
  /\ PhoneStep /\ UNCHANGED <<shared, lastApplied, aired>>

(* It loses its socket, or gives up. *)
Disconnect(p) ==
  /\ phone[p] # Away
  /\ phone' = [phone EXCEPT ![p] = Away]
  /\ Drop(p)
  /\ PhoneStep /\ UNCHANGED <<nonces, shared, lastApplied, aired>>

(***************************************************************************)
(* What a phone does with the next frame that has reached it.              *)
(***************************************************************************)
TakeFrame(p) == inbox' = [inbox EXCEPT ![p] = Tail(@)]

OwnServerHello(p, m) ==
  /\ m.kind = "serverHello"
  /\ phone[p].step = "hello"
  /\ m.phone = p /\ m.cnonce = phone[p].cnonce

OwnSecureReady(p, m) ==
  /\ m.kind = "secureReady"
  /\ phone[p].step = "auth"
  /\ m.epoch = phone[p].key.epoch

OwnEnvelope(p, m) ==
  /\ m.kind = "encryptedEnvelope"
  /\ phone[p].step = "ready"
  /\ m.key = phone[p].key

Authenticate(p) ==
  /\ inbox[p] # <<>>
  /\ LET m == Head(inbox[p])
         secret == ProofSecret(p, phone[p].mode)
     IN /\ OwnServerHello(p, m)
        /\ phone' = [phone EXCEPT ![p] =
             [step |-> "auth", counter |-> 0,
              key |-> [phone |-> p, cnonce |-> m.cnonce, snonce |-> m.snonce, epoch |-> m.epoch,
                       secret |-> IF secret = "code" THEN "derived" ELSE secret]]]
        /\ ToBridge([kind |-> "clientAuth", phone |-> p, secret |-> secret,
                     cnonce |-> m.cnonce, snonce |-> m.snonce, epoch |-> m.epoch])
  /\ TakeFrame(p)
  /\ PhoneStep /\ UNCHANGED <<connected, nonces, shared, lastApplied, aired>>

Resume(p) ==
  /\ inbox[p] # <<>>
  /\ OwnSecureReady(p, Head(inbox[p]))
  /\ phone' = [phone EXCEPT ![p].step = "ready"]
  /\ shared' = [shared EXCEPT ![p] = phone[p].key.secret]
  /\ ToBridge([kind |-> "resumeState", epoch |-> phone[p].key.epoch, last |-> lastApplied[p]])
  /\ TakeFrame(p)
  /\ PhoneStep /\ UNCHANGED <<connected, nonces, lastApplied, aired>>

(* A message already applied is not applied again. *)
Apply(p) ==
  /\ inbox[p] # <<>>
  /\ LET m == Head(inbox[p]) IN
       /\ OwnEnvelope(p, m)
       /\ lastApplied' =
            [lastApplied EXCEPT ![p] = IF m.seq > lastApplied[p] THEN m.seq ELSE lastApplied[p]]
  /\ TakeFrame(p)
  /\ PhoneStep /\ UNCHANGED <<connected, toBridge, nonces, phone, shared, aired>>

Ignore(p) ==
  /\ inbox[p] # <<>>
  /\ LET m == Head(inbox[p]) IN
       ~OwnServerHello(p, m) /\ ~OwnSecureReady(p, m) /\ ~OwnEnvelope(p, m)
  /\ TakeFrame(p)
  /\ PhoneStep /\ UNCHANGED <<connected, toBridge, nonces, phoneVars>>

(* An application message of the phone: a decision, a request. *)
SendEnvelope(p) ==
  /\ phone[p].step = "ready"
  /\ phone[p].counter < MaxCounter
  /\ LET n == phone[p].counter + 1
         m == [kind |-> "encryptedEnvelope", epoch |-> phone[p].key.epoch, counter |-> n,
               key |-> phone[p].key]
     IN /\ phone' = [phone EXCEPT ![p].counter = n]
        /\ ToBridge(m)
        /\ aired' = aired \cup {m}
  /\ PhoneStep /\ UNCHANGED <<connected, inbox, nonces, shared, lastApplied>>

(* An envelope arrives once more. *)
Repeat(m) ==
  /\ Repeats
  /\ ToBridge(m)
  /\ PhoneStep /\ UNCHANGED <<connected, inbox, nonces, phoneVars>>

-----------------------------------------------------------------------------

Bridge ==
  \/ ReceiveFrame
  \/ nextSeq <= MaxSeq /\ \E size \in Sizes : QueueOutbound(size)
  \/ ExpirePairing

Next ==
  \/ Bridge /\ UNCHANGED phoneVars
  \/ \E p \in Phones :
       \/ \E mode \in Modes : Connect(p, mode)
       \/ Disconnect(p)
       \/ Authenticate(p) \/ Resume(p) \/ Apply(p) \/ Ignore(p)
       \/ SendEnvelope(p)
  \/ \E m \in aired : Repeat(m)

Spec == Init /\ [][Next]_vars

(* The bridge reads what has come and a phone reads what has reached it. *)
Fairness ==
  /\ WF_vars(ReceiveFrame /\ UNCHANGED phoneVars)
  /\ \A p \in Phones : WF_vars(Authenticate(p) \/ Resume(p) \/ Apply(p) \/ Ignore(p))

FairSpec == Spec /\ Fairness

=============================================================================
