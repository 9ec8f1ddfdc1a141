---------------------- MODULE BridgeChannelProperties ----------------------
(***************************************************************************)
(* What the bridge's secure channel must keep.  The properties of the      *)
(* replay are about a phone that is alone in the session: with a second    *)
(* one, whose resumeState is taken for the first one's when their          *)
(* handshakes share an epoch, they do not hold.                            *)
(***************************************************************************)
EXTENDS BridgeChannel

(* The phone holds the key of the active session and waits for messages. *)
OnSession(p) ==
  /\ session # None
  /\ phone[p].step = "ready"
  /\ phone[p].key = session.key

(* The message numbered n is on its way to the phone, under its key. *)
InFlight(p, n) ==
  \E k \in DOMAIN inbox[p] : OwnEnvelope(p, inbox[p][k]) /\ inbox[p][k].seq = n

Buffered(n) == \E k \in DOMAIN buffer : buffer[k].seq = n

-----------------------------------------------------------------------------
(***************************************************************************)
(* Safety                                                                  *)
(***************************************************************************)

(***************************************************************************)
(* One pairing code makes at most one phone trusted, although several may  *)
(* say hello with it before one of them authenticates (_handle_client_auth *)
(* spends the code, not _handle_client_hello).                             *)
(***************************************************************************)
OnePhonePerCode ==
  \A p, q \in Phones : trusted[p] = "derived" /\ trusted[q] = "derived" => p = q

(***************************************************************************)
(* No envelope of a phone is handed on twice, whatever arrives again and   *)
(* in whatever session, and those of a session in the order of their       *)
(* counters (_handle_encrypted_envelope).                                  *)
(***************************************************************************)
NoReplay ==
  \A j, k \in DOMAIN heard :
    j < k /\ heard[j].key = heard[k].key => heard[j].counter < heard[k].counter

(***************************************************************************)
(* A session that takes the place of another has a larger epoch, although  *)
(* several handshakes may be given the same one: a resumeState or an       *)
(* envelope of a session that was replaced is refused for good.            *)
(***************************************************************************)
EpochsGrow ==
  [][session' # None /\ session # None /\ session'.key # session.key
       => session'.epoch > session.epoch]_vars

(***************************************************************************)
(* The buffer is the unbroken end of what was queued, within both limits:  *)
(* trimming (_trim_outbound_buffer) never leaves a hole and never drops a  *)
(* message before an older one, even for one over the limit by itself.     *)
(***************************************************************************)
BufferIsRecent ==
  /\ Fits(buffer)
  /\ \A k \in DOMAIN buffer : buffer[k].seq = nextSeq - Len(buffer) + k - 1

(***************************************************************************)
(* Once the session is resumed, whatever is still in the buffer and has    *)
(* not been applied is on its way to the phone, queued before the          *)
(* connection, during the handshake or after it.                           *)
(***************************************************************************)
NothingMissing ==
  \A p \in Phones :
    OnSession(p) /\ session.resumed =>
      \A k \in DOMAIN buffer :
        buffer[k].seq > lastApplied[p] => InFlight(p, buffer[k].seq)

(***************************************************************************)
(* A phone applies the messages in order and leaves out none the bridge    *)
(* still has: the number it reports with resumeState stands for everything *)
(* up to it (steps 10 and 11 of secure-bridge-protocol.md).                *)
(***************************************************************************)
AppliesInOrder ==
  [][\A p \in Phones :
       \A n \in (lastApplied[p] + 1)..(lastApplied'[p] - 1) : ~Buffered(n)]_vars

(***************************************************************************)
(* With one phone, the bridge and the phone together implement a log: the  *)
(* buffer is what is kept, and sockets that close, handshakes that are     *)
(* begun again, resumeStates and limits show in nothing else.              *)
(***************************************************************************)
Log ==
  INSTANCE MessageLog
  WITH Readers <- Phones, queued <- nextSeq - 1, oldest <- nextSeq - Len(buffer),
       applied <- lastApplied

ImplementsLog == Log!LogSpec

-----------------------------------------------------------------------------
(***************************************************************************)
(* Liveness, under FairSpec                                                *)
(***************************************************************************)

(***************************************************************************)
(* A message queued for a phone that is connected, or that connects while  *)
(* it is buffered, is applied, unless the phone goes away, the session is  *)
(* replaced or the buffer had to drop it before it was sent.               *)
(***************************************************************************)
Delivered ==
  \A p \in Phones : \A n \in 1..MaxSeq :
    (OnSession(p) /\ Buffered(n))
      ~> (lastApplied[p] >= n \/ ~OnSession(p) \/ ~Buffered(n))

(***************************************************************************)
(* What a phone sends under a session's key reaches the application, even  *)
(* if the phone loses its socket at once, unless a session of another      *)
(* phone comes first.                                                      *)
(***************************************************************************)
PhoneHeard ==
  \A p \in Phones : \A e \in 1..MaxHellos : \A n \in 1..MaxCounter :
    (\E m \in aired : m.key.phone = p /\ m.epoch = e /\ m.counter = n)
      ~> \/ \E k \in DOMAIN heard :
              heard[k].key.phone = p /\ heard[k].key.epoch = e /\ heard[k].counter = n
         \/ session # None /\ session.phone # p

=============================================================================
