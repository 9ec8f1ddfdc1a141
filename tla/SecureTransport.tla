-------------------------- MODULE SecureTransport --------------------------
(***************************************************************************)
(* BridgeSecureTransport of cra/bridge/secure_transport.py: pairing, the   *)
(* handshake, resumption and the outbound buffer of one run of the bridge. *)
(*                                                                         *)
(* Cryptography is ideal.  A tag is the list of what it is computed over,  *)
(* so it is the expected one exactly when secret and data agree; a session *)
(* key is the list of what it is derived from; a nonce has not been used   *)
(* before.  Every frame carries the session id of this run: a frame of     *)
(* another run, or of another protocol version, is answered with an error  *)
(* and changes nothing, as are the other frames that are refused.  Those   *)
(* error replies are left out: nothing in the bridge depends on them, and  *)
(* a phone may give up at any moment anyway.                               *)
(* A frame whose number is no number raises and ends the run, which is no  *)
(* step here (BridgeService.Fail).                                         *)
(***************************************************************************)
EXTENDS RelaySession, FiniteSets, SequencesExt

CONSTANTS
  Sizes,        \* the sizes of application messages, in units of the byte limit
  MaxMessages,  \* MAX_BRIDGE_OUTBOUND_MESSAGES
  MaxBytes,     \* MAX_BRIDGE_OUTBOUND_BYTES
  None          \* no pending handshake, no active session

ASSUME SizesAssumption == Sizes \subseteq Nat \ {0}
ASSUME LimitsAssumption == MaxMessages \in Nat /\ MaxBytes \in Nat

VARIABLES
  pairing,      \* pending_pairing: "open", "expired" or "none"
  trusted,      \* device_state: phone -> its shared secret, "none" if not trusted
  handshake,    \* pending_handshake
  session,      \* active_session
  nextEpoch,    \* next_key_epoch
  nextSeq,      \* next_bridge_outbound_seq
  buffer,       \* outbound_buffer
  nonces,       \* how many nonces were drawn, by anyone: the last one drawn
  heard         \* history: the envelopes handed to on_application_message

transportVars ==
  <<pairing, trusted, handshake, session, nextEpoch, nextSeq, buffer, nonces, heard>>

(***************************************************************************)
(* Secrets: the pairing code of this run, the secret a phone derives from  *)
(* it, and the one it derived from the code of an earlier run.             *)
(***************************************************************************)
Modes == {"qr_bootstrap", "trusted_reconnect"}
SharedSecrets == {"derived", "earlier"}
Secrets == {"code"} \cup SharedSecrets

Key ==
  [phone : Phones, secret : SharedSecrets, cnonce : Nat, snonce : Nat, epoch : Nat]

Pending ==
  [phone : Phones, mode : Modes, secret : Secrets, cnonce : Nat, snonce : Nat, epoch : Nat]

Session ==
  [phone : Phones, epoch : Nat, key : Key, out : Nat, in : Nat, resumed : BOOLEAN]

Entry == [seq : Nat, size : Sizes]

(* What a phone sends. *)
HelloMsg ==
  [kind : {"clientHello"}, phone : Phones, mode : Modes, secret : Secrets, cnonce : Nat]
AuthMsg ==
  [kind : {"clientAuth"}, phone : Phones, secret : Secrets, cnonce : Nat, snonce : Nat,
   epoch : Nat]
ResumeMsg == [kind : {"resumeState"}, epoch : Nat, last : Nat]
PhoneEnvelope == [kind : {"encryptedEnvelope"}, epoch : Nat, counter : Nat, key : Key]

PhoneFrame == HelloMsg \cup AuthMsg \cup ResumeMsg \cup PhoneEnvelope

(* What the bridge sends.  The bridgeProof of serverHello covers the phone, *)
(* both nonces and the epoch.                                              *)
ServerHello ==
  [kind : {"serverHello"}, phone : Phones, cnonce : Nat, snonce : Nat, epoch : Nat]
SecureReady == [kind : {"secureReady"}, epoch : Nat]
BridgeEnvelope == [kind : {"encryptedEnvelope"}, counter : Nat, key : Key, seq : Nat]

BridgeFrame == ServerHello \cup SecureReady \cup BridgeEnvelope

TransportTypeOK ==
  /\ pairing \in {"open", "expired", "none"}
  /\ trusted \in [Phones -> SharedSecrets \cup {"none"}]
  /\ handshake \in Pending \cup {None}
  /\ session \in Session \cup {None}
  /\ nextEpoch \in Nat
  /\ nextSeq \in Nat
  /\ buffer \in Seq(Entry)
  /\ nonces \in Nat
  /\ heard \in Seq([key : Key, counter : Nat])

(* A run begins with a fresh pairing code and the phones trusted before. *)
NewTransport ==
  /\ pairing = "open"
  /\ trusted \in [Phones -> {"earlier", "none"}]
  /\ handshake = None
  /\ session = None
  /\ nextEpoch = 1
  /\ nextSeq = 1
  /\ buffer = <<>>
  /\ nonces = 0
  /\ heard = <<>>

-----------------------------------------------------------------------------
(***************************************************************************)
(* clientHello                                                             *)
(***************************************************************************)

AcceptsHello(m) ==
  \/ /\ m.mode = "qr_bootstrap"
     /\ pairing = "open"
     /\ m.secret = "code"
  \/ /\ m.mode = "trusted_reconnect"
     /\ trusted[m.phone] # "none"
     /\ m.secret = trusted[m.phone]

(* A hello that is accepted takes the place of a handshake under way; the  *)
(* active session goes on.                                                 *)
HandleClientHello(m) ==
  /\ m.kind = "clientHello"
  /\ AcceptsHello(m)
  /\ nonces' = nonces + 1
  /\ handshake' = [phone |-> m.phone, mode |-> m.mode, secret |-> m.secret,
                   cnonce |-> m.cnonce, snonce |-> nonces', epoch |-> nextEpoch]
  /\ Broadcast(<<[kind |-> "serverHello", phone |-> m.phone, cnonce |-> m.cnonce,
                  snonce |-> nonces', epoch |-> nextEpoch]>>)
  /\ UNCHANGED <<pairing, trusted, session, nextEpoch, nextSeq, buffer, heard>>

(***************************************************************************)
(* clientAuth                                                              *)
(***************************************************************************)

(* The identifiers and the tag over the nonces of the pending handshake. *)
AcceptsAuth(m) ==
  /\ handshake # None
  /\ m.phone = handshake.phone
  /\ m.epoch = handshake.epoch
  /\ m.secret = handshake.secret
  /\ m.cnonce = handshake.cnonce
  /\ m.snonce = handshake.snonce

SessionSecret ==
  IF handshake.mode = "qr_bootstrap" THEN "derived" ELSE handshake.secret

NewSession ==
  [phone |-> handshake.phone, epoch |-> handshake.epoch,
   key |-> [phone |-> handshake.phone, secret |-> SessionSecret,
            cnonce |-> handshake.cnonce, snonce |-> handshake.snonce,
            epoch |-> handshake.epoch],
   out |-> 1, in |-> 0, resumed |-> FALSE]

(* A bootstrapped phone is remembered and the pairing code is spent. *)
Remember_KeepsCode ==
  \/ /\ handshake.mode = "qr_bootstrap"
     /\ trusted' = [trusted EXCEPT ![handshake.phone] = "derived"]
     /\ UNCHANGED pairing
  \/ /\ handshake.mode = "trusted_reconnect"
     /\ UNCHANGED <<trusted, pairing>>

Remember ==
  \/ /\ handshake.mode = "qr_bootstrap"
     /\ trusted' = [trusted EXCEPT ![handshake.phone] = "derived"]
     /\ pairing' = "none"
  \/ /\ handshake.mode = "trusted_reconnect"
     /\ UNCHANGED <<trusted, pairing>>

HandleClientAuth_SameEpoch(m) ==
  /\ m.kind = "clientAuth"
  /\ AcceptsAuth(m)
  /\ Remember
  /\ session' = NewSession
  /\ handshake' = None
  /\ Broadcast(<<[kind |-> "secureReady", epoch |-> handshake.epoch]>>)
  /\ UNCHANGED <<nextEpoch, nextSeq, buffer, nonces, heard>>

HandleClientAuth(m) ==
  /\ m.kind = "clientAuth"
  /\ AcceptsAuth(m)
  /\ Remember
  /\ session' = NewSession
  /\ handshake' = None
  /\ nextEpoch' = nextEpoch + 1
  /\ Broadcast(<<[kind |-> "secureReady", epoch |-> handshake.epoch]>>)
  /\ UNCHANGED <<nextSeq, buffer, nonces, heard>>

-----------------------------------------------------------------------------
(***************************************************************************)
(* Outbound messages and resumeState                                       *)
(***************************************************************************)

(* The envelopes of the entries of b, under the next counters of s. *)
Envelopes(s, b) ==
  [k \in DOMAIN b |->
     [kind |-> "encryptedEnvelope", counter |-> s.out + k - 1, key |-> s.key, seq |-> b[k].seq]]

SendEntries(s, b) ==
  /\ session' = [s EXCEPT !.out = @ + Len(b)]
  /\ Broadcast(Envelopes(s, b))

(* The entries of b at the positions P, in order: SelectSeq, whose          *)
(* recursion no proof gets through, as a function of the rank in P.        *)
Picked(b, P) ==
  [n \in 1..Cardinality(P) |-> b[CHOOSE k \in P : Cardinality({j \in P : j <= k}) = n]]

Missing_From(b, last) == Picked(b, {k \in DOMAIN b : b[k].seq > last + 1})
Missing(b, last) == Picked(b, {k \in DOMAIN b : b[k].seq > last})

(* Whoever sends it, a resumeState of the session's epoch resumes it and   *)
(* everything still buffered behind its last applied number is sent.       *)
AcceptsResume(m) == session # None /\ m.epoch = session.epoch

HandleResumeState_SendsNothing(m) ==
  /\ m.kind = "resumeState"
  /\ AcceptsResume(m)
  /\ session' = [session EXCEPT !.resumed = TRUE]
  /\ UNCHANGED <<pairing, trusted, handshake, nextEpoch, nextSeq, buffer, nonces, heard, inbox>>

HandleResumeState(m) ==
  /\ m.kind = "resumeState"
  /\ AcceptsResume(m)
  /\ SendEntries([session EXCEPT !.resumed = TRUE], Missing(buffer, m.last))
  /\ UNCHANGED <<pairing, trusted, handshake, nextEpoch, nextSeq, buffer, nonces, heard>>

Bytes(b) == FoldLeft(LAMBDA sum, e : sum + e.size, 0, b)

Fits(b) == Len(b) <= MaxMessages /\ Bytes(b) <= MaxBytes

(* The oldest entries go until the rest is within both limits. *)
Trim_Newest(b) ==
  LET k == CHOOSE n \in 0..Len(b) :
             Fits(SubSeq(b, 1, Len(b) - n)) /\ \A j \in 0..(n - 1) : ~Fits(SubSeq(b, 1, Len(b) - j))
  IN SubSeq(b, 1, Len(b) - k)

Trim(b) ==
  LET k == CHOOSE n \in 0..Len(b) :
             Fits(SubSeq(b, n + 1, Len(b))) /\ \A j \in 0..(n - 1) : ~Fits(SubSeq(b, j + 1, Len(b)))
  IN SubSeq(b, k + 1, Len(b))

QueueOutbound_BeforeResume(size) ==
  LET entry == [seq |-> nextSeq, size |-> size] IN
  /\ nextSeq' = nextSeq + 1
  /\ buffer' = Trim(Append(buffer, entry))
  /\ \/ session # None /\ SendEntries(session, <<entry>>)
     \/ session = None /\ UNCHANGED <<session, inbox>>
  /\ UNCHANGED <<pairing, trusted, handshake, nextEpoch, nonces, heard, connected, toBridge>>

(* Buffered first, and sent at once if the session is resumed, even when   *)
(* the entry alone is over the limit and was trimmed straight away.        *)
QueueOutbound(size) ==
  LET entry == [seq |-> nextSeq, size |-> size] IN
  /\ nextSeq' = nextSeq + 1
  /\ buffer' = Trim(Append(buffer, entry))
  /\ \/ session # None /\ session.resumed /\ SendEntries(session, <<entry>>)
     \/ ~(session # None /\ session.resumed) /\ UNCHANGED <<session, inbox>>
  /\ UNCHANGED <<pairing, trusted, handshake, nextEpoch, nonces, heard, connected, toBridge>>

-----------------------------------------------------------------------------
(***************************************************************************)
(* encryptedEnvelope                                                       *)
(***************************************************************************)

AcceptsEnvelope_SameCounter(m) ==
  /\ session # None
  /\ m.epoch = session.epoch
  /\ m.counter >= session.in
  /\ m.key = session.key

AcceptsEnvelope_NoFirst(m) ==
  /\ session # None
  /\ m.epoch = session.epoch
  /\ m.counter > session.in + 1
  /\ m.key = session.key

AcceptsEnvelope(m) ==
  /\ session # None
  /\ m.epoch = session.epoch
  /\ m.counter > session.in
  /\ m.key = session.key

HandleEncryptedEnvelope(m) ==
  /\ m.kind = "encryptedEnvelope"
  /\ AcceptsEnvelope(m)
  /\ session' = [session EXCEPT !.in = m.counter]
  /\ heard' = Append(heard, [key |-> m.key, counter |-> m.counter])
  /\ UNCHANGED <<pairing, trusted, handshake, nextEpoch, nextSeq, buffer, nonces, inbox>>

(* A frame none of the handlers accepts. *)
Refuse(m) ==
  /\ CASE m.kind = "clientHello" -> ~AcceptsHello(m)
       [] m.kind = "clientAuth" -> ~AcceptsAuth(m)
       [] m.kind = "resumeState" -> ~AcceptsResume(m)
       [] m.kind = "encryptedEnvelope" -> ~AcceptsEnvelope(m)
  /\ UNCHANGED <<transportVars, inbox>>

HandleIncoming(m) ==
  \/ HandleClientHello(m)
  \/ HandleClientAuth(m)
  \/ HandleResumeState(m)
  \/ HandleEncryptedEnvelope(m)
  \/ Refuse(m)

(* The bridge reads the next frame. *)
ReceiveFrame ==
  /\ toBridge # <<>>
  /\ HandleIncoming(Head(toBridge))
  /\ toBridge' = Tail(toBridge)
  /\ UNCHANGED connected

(* Five minutes have passed since the pairing code was made. *)
ExpirePairing ==
  /\ pairing = "open"
  /\ pairing' = "expired"
  /\ UNCHANGED <<trusted, handshake, session, nextEpoch, nextSeq, buffer, nonces, heard,
                 relayVars>>

=============================================================================
