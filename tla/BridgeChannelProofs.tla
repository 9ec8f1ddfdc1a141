------------------------ MODULE BridgeChannelProofs ------------------------
(***************************************************************************)
(* Proofs about the bridge's secure channel, for any number of phones and  *)
(* any bounds.  Two inductive invariants are independent of each other:    *)
(* ChannelInv, of the handshake, the session and the frames from phones    *)
(* (one phone per pairing code, growing epochs, no replay), and RecentInv, *)
(* of the types and the outbound buffer.  A third, LinkInv, rests on both  *)
(* and is about what is on its way to a phone that is alone in the session.*)
(***************************************************************************)
EXTENDS BridgeChannelProperties, TLAPS, SequenceTheorems, FiniteSetTheorems,
        WellFoundedInduction

Sequence(s) == \E S : s \in Seq(S)

LEMMA AppendToSequence ==
  ASSUME NEW s, NEW e, Sequence(s)
  PROVE  /\ Sequence(Append(s, e))
         /\ Len(Append(s, e)) = Len(s) + 1
         /\ DOMAIN Append(s, e) = 1..(Len(s) + 1)
         /\ DOMAIN s = 1..Len(s)
         /\ Len(s) \in Nat
         /\ \A k \in 1..Len(s) : Append(s, e)[k] = s[k]
         /\ Append(s, e)[Len(s) + 1] = e
<1>1. PICK S : s \in Seq(S)
  BY DEF Sequence
<1>2. s \in Seq(S \cup {e}) /\ e \in S \cup {e}
  BY <1>1, SeqMonotonic
<1>3. Append(s, e) \in Seq(S \cup {e})
  BY <1>2
<1> QED
  BY <1>2, <1>3, AppendProperties, LenProperties DEF Sequence

LEMMA TailOfSequence ==
  ASSUME NEW s, Sequence(s), s # <<>>
  PROVE  /\ Sequence(Tail(s))
         /\ DOMAIN Tail(s) = 1..(Len(s) - 1)
         /\ Len(s) \in Nat \ {0}
         /\ DOMAIN s = 1..Len(s)
         /\ Head(s) = s[1]
         /\ \A k \in 1..(Len(s) - 1) : Tail(s)[k] = s[k + 1]
<1>1. PICK S : s \in Seq(S)
  BY DEF Sequence
<1> QED
  BY <1>1, HeadTailProperties, LenProperties, EmptySeq DEF Sequence

-----------------------------------------------------------------------------
(***************************************************************************)
(* The inductive invariant.                                                *)
(***************************************************************************)

(* A handshake under way has the next epoch, and one begun with the code   *)
(* ends before the code is spent or replaced.                              *)
HandshakeInv ==
  handshake # None =>
    /\ handshake.epoch = nextEpoch
    /\ handshake.mode = "qr_bootstrap" => pairing # "none"

(* As long as the code is not spent no phone has been paired with it. *)
PairingInv ==
  /\ trusted \in [Phones -> SharedSecrets \cup {"none"}]
  /\ pairing # "none" => \A p \in Phones : trusted[p] # "derived"
  /\ OnePhonePerCode

IsSession(s) ==
  s = [phone |-> s.phone, epoch |-> s.epoch, key |-> s.key,
       out |-> s.out, in |-> s.in, resumed |-> s.resumed]

(* The session's epoch is an earlier one, and part of its key. *)
SessionInv ==
  /\ nextEpoch \in Nat
  /\ session # None =>
       /\ IsSession(session)
       /\ session.epoch \in Nat /\ session.epoch < nextEpoch
       /\ session.key.epoch = session.epoch
       /\ session.in \in Nat

(* What was heard was sent under an earlier epoch's key, and under the     *)
(* present key with no counter above the session's.                        *)
HeardInv ==
  /\ Sequence(heard)
  /\ \A k \in DOMAIN heard :
       /\ heard[k].counter \in Nat
       /\ heard[k].key.epoch \in Nat /\ heard[k].key.epoch < nextEpoch
       /\ session # None /\ heard[k].key = session.key => heard[k].counter <= session.in
  /\ NoReplay

TransportInv == HandshakeInv /\ PairingInv /\ SessionInv /\ HeardInv

IsOnline(d) == d = [step |-> d.step, key |-> d.key, counter |-> d.counter]

(* The counters of envelopes are numbers wherever they are. *)
CounterInv ==
  /\ \E S : phone \in [Phones -> S]
  /\ \A p \in Phones :
       phone[p].step \in {"auth", "ready"} => IsOnline(phone[p]) /\ phone[p].counter \in Nat
  /\ \A m \in aired : m.counter \in Nat
  /\ Sequence(toBridge)
  /\ \A k \in DOMAIN toBridge :
       toBridge[k].kind = "encryptedEnvelope" => toBridge[k].counter \in Nat

ChannelInv == TransportInv /\ CounterInv

LEMMA InitHolds == Init => ChannelInv
<1> SUFFICES ASSUME Init PROVE ChannelInv
  OBVIOUS
<1>1. Sequence(<<>>) /\ DOMAIN <<>> = {}
  BY EmptySeq, LenProperties DEF Sequence
<1>2. TransportInv
  BY <1>1 DEF Init, NewTransport, TransportInv, HandshakeInv, PairingInv, SessionInv, HeardInv,
              OnePhonePerCode, NoReplay, SharedSecrets
<1>3. phone \in [Phones -> {Away}] /\ \A p \in Phones : phone[p].step = "away"
  BY DEF Init, Away
<1>4. CounterInv
  BY <1>1, <1>3 DEF Init, EmptySession, CounterInv
<1> QED
  BY <1>2, <1>4 DEF ChannelInv

-----------------------------------------------------------------------------
(***************************************************************************)
(* The steps of the bridge keep TransportInv.                              *)
(***************************************************************************)

LEMMA HelloKeeps ==
  ASSUME TransportInv, NEW m, HandleClientHello(m)
  PROVE  TransportInv'
<1>1. HandshakeInv'
  BY DEF HandleClientHello, AcceptsHello, HandshakeInv
<1>2. PairingInv' /\ SessionInv' /\ HeardInv'
  BY DEF HandleClientHello, TransportInv, PairingInv, SessionInv, HeardInv, OnePhonePerCode,
         NoReplay
<1> QED
  BY <1>1, <1>2 DEF TransportInv

(* The new session's epoch is the next one: no key heard so far has it. *)
LEMMA AuthKeeps ==
  ASSUME TransportInv, NEW m, HandleClientAuth(m)
  PROVE  TransportInv' /\ (session # None => session'.epoch > session.epoch)
<1> USE DEF TransportInv
<1>1. /\ handshake # None /\ handshake.epoch = nextEpoch /\ handshake' = None
      /\ session' = NewSession /\ nextEpoch \in Nat /\ nextEpoch' = nextEpoch + 1
      /\ heard' = heard
  BY DEF HandleClientAuth, AcceptsAuth, HandshakeInv, SessionInv
<1>2. /\ IsSession(session')
      /\ session'.epoch = nextEpoch /\ session'.key.epoch = nextEpoch /\ session'.in = 0
  BY <1>1 DEF NewSession, IsSession
<1>3. HandshakeInv'
  BY <1>1 DEF HandshakeInv
<1>4. PairingInv'
  <2>1. CASE handshake.mode = "qr_bootstrap"
    <3>1. /\ \A p \in Phones : trusted[p] # "derived"
          /\ trusted' = [trusted EXCEPT ![handshake.phone] = "derived"]
          /\ pairing' = "none"
      BY <1>1, <2>1 DEF HandleClientAuth, Remember, HandshakeInv, PairingInv
    <3>2. \A p \in Phones : trusted'[p] = "derived" => p = handshake.phone
      BY <3>1 DEF PairingInv
    <3> QED
      BY <3>1, <3>2 DEF PairingInv, OnePhonePerCode, SharedSecrets
  <2>2. CASE handshake.mode # "qr_bootstrap"
    BY <2>2 DEF HandleClientAuth, Remember, PairingInv, OnePhonePerCode
  <2> QED
    BY <2>1, <2>2
<1>5. SessionInv'
  BY <1>1, <1>2 DEF SessionInv
<1>6. HeardInv'
  BY <1>1, <1>2 DEF HeardInv, NoReplay
<1> QED
  BY <1>1, <1>2, <1>3, <1>4, <1>5, <1>6 DEF SessionInv

(* What is sent under the session changes its outbound counter only. *)
LEMMA SendingKeeps ==
  ASSUME TransportInv,
         session # None,
         NEW b, NEW n, session' = [[session EXCEPT !.resumed = b] EXCEPT !.out = @ + n],
         UNCHANGED <<pairing, trusted, handshake, nextEpoch, heard>>
  PROVE  TransportInv' /\ session'.key = session.key
<1> USE DEF TransportInv
<1>1. /\ IsSession(session')
      /\ session'.epoch = session.epoch /\ session'.key = session.key
      /\ session'.in = session.in
  BY DEF SessionInv, IsSession
<1>2. HandshakeInv' /\ PairingInv'
  BY DEF HandshakeInv, PairingInv, OnePhonePerCode
<1>3. SessionInv' /\ HeardInv'
  BY <1>1 DEF SessionInv, HeardInv, NoReplay
<1> QED
  BY <1>1, <1>2, <1>3

LEMMA EnvelopeKeeps ==
  ASSUME TransportInv, NEW m, m.counter \in Nat, HandleEncryptedEnvelope(m)
  PROVE  TransportInv' /\ session'.key = session.key
<1> USE DEF TransportInv
<1> DEFINE e == [key |-> m.key, counter |-> m.counter]
<1>1. /\ session # None /\ m.counter > session.in /\ m.key = session.key
      /\ session' = [session EXCEPT !.in = m.counter]
      /\ heard' = Append(heard, e)
      /\ UNCHANGED <<pairing, trusted, handshake, nextEpoch>>
  BY DEF HandleEncryptedEnvelope, AcceptsEnvelope
<1>2. /\ IsSession(session')
      /\ session'.epoch = session.epoch /\ session'.key = session.key
      /\ session'.in = m.counter
  BY <1>1 DEF SessionInv, IsSession
<1>3. HandshakeInv' /\ PairingInv' /\ SessionInv'
  BY <1>1, <1>2 DEF HandshakeInv, PairingInv, OnePhonePerCode, SessionInv
<1>4. HeardInv'
  <2>1. /\ Sequence(heard') /\ DOMAIN heard' = 1..(Len(heard) + 1)
        /\ DOMAIN heard = 1..Len(heard) /\ Len(heard) \in Nat
        /\ \A k \in 1..Len(heard) : heard'[k] = heard[k]
        /\ heard'[Len(heard) + 1] = e
    BY <1>1, AppendToSequence DEF HeardInv
  <2>2. \A k \in DOMAIN heard' :
          /\ heard'[k].counter \in Nat
          /\ heard'[k].key.epoch \in Nat /\ heard'[k].key.epoch < nextEpoch'
          /\ heard'[k].key = session'.key => heard'[k].counter <= session'.in
    BY <1>1, <1>2, <2>1 DEF HeardInv, SessionInv
  <2>3. \A j, k \in DOMAIN heard' :
          j < k /\ heard'[j].key = heard'[k].key => heard'[j].counter < heard'[k].counter
    <3> SUFFICES ASSUME NEW j \in DOMAIN heard', NEW k \in DOMAIN heard', j < k,
                        heard'[j].key = heard'[k].key
                 PROVE  heard'[j].counter < heard'[k].counter
      OBVIOUS
    <3>1. CASE k \in 1..Len(heard)
      BY <2>1, <3>1 DEF HeardInv, NoReplay
    <3>2. CASE k = Len(heard) + 1
      <4>1. j \in 1..Len(heard) /\ heard'[j] = heard[j] /\ heard'[k] = e
        BY <2>1, <3>2
      <4>2. heard[j].key = session.key
        BY <1>1, <4>1
      <4>3. heard[j].counter \in Nat /\ heard[j].counter <= session.in /\ session.in \in Nat
        BY <1>1, <2>1, <4>1, <4>2 DEF HeardInv, SessionInv
      <4> QED
        BY <1>1, <4>1, <4>3
    <3> QED
      BY <2>1, <3>1, <3>2
  <2> QED
    BY <2>1, <2>2, <2>3 DEF HeardInv, NoReplay
<1> QED
  BY <1>2, <1>3, <1>4

LEMMA IdleKeeps ==
  ASSUME TransportInv,
         UNCHANGED <<trusted, handshake, session, nextEpoch, heard>>,
         \/ UNCHANGED pairing
         \/ pairing # "none" /\ pairing' # "none"
  PROVE  TransportInv'
BY DEF TransportInv, HandshakeInv, PairingInv, SessionInv, HeardInv, OnePhonePerCode, NoReplay

-----------------------------------------------------------------------------
(***************************************************************************)
(* Every step.                                                             *)
(***************************************************************************)

NewEpoch ==
  session' # None /\ session # None /\ session'.key # session.key
    => session'.epoch > session.epoch

LEMMA FrameKeeps ==
  ASSUME TransportInv, NEW m, m.kind = "encryptedEnvelope" => m.counter \in Nat,
         HandleIncoming(m)
  PROVE  TransportInv' /\ NewEpoch
<1>1. CASE HandleClientHello(m)
  <2>1. session' = session
    BY <1>1 DEF HandleClientHello
  <2> QED
    BY <1>1, <2>1, HelloKeeps DEF NewEpoch
<1>2. CASE HandleClientAuth(m)
  BY <1>2, AuthKeeps DEF NewEpoch
<1>3. CASE HandleResumeState(m)
  <2>1. /\ session # None
        /\ session' = [[session EXCEPT !.resumed = TRUE]
                         EXCEPT !.out = @ + Len(Missing(buffer, m.last))]
        /\ UNCHANGED <<pairing, trusted, handshake, nextEpoch, heard>>
    BY <1>3 DEF HandleResumeState, AcceptsResume, SendEntries
  <2> QED
    BY <2>1, SendingKeeps DEF NewEpoch
<1>4. CASE HandleEncryptedEnvelope(m)
  <2>1. m.counter \in Nat
    BY <1>4 DEF HandleEncryptedEnvelope
  <2> QED
    BY <1>4, <2>1, EnvelopeKeeps DEF NewEpoch
<1>5. CASE Refuse(m)
  <2>1. UNCHANGED <<pairing, trusted, handshake, session, nextEpoch, heard>>
    BY <1>5 DEF Refuse, transportVars
  <2> QED
    BY <2>1, IdleKeeps DEF NewEpoch
<1> QED
  BY <1>1, <1>2, <1>3, <1>4, <1>5 DEF HandleIncoming

LEMMA QueueKeeps ==
  ASSUME TransportInv, NEW size, QueueOutbound(size)
  PROVE  TransportInv' /\ NewEpoch
<1> DEFINE entry == [seq |-> nextSeq, size |-> size]
<1>1. UNCHANGED <<pairing, trusted, handshake, nextEpoch, heard>>
  BY DEF QueueOutbound
<1>2. CASE session' = session
  BY <1>1, <1>2, IdleKeeps DEF NewEpoch
<1>3. CASE session # None /\ session.resumed /\ SendEntries(session, <<entry>>)
  <2>1. session' = [session EXCEPT !.out = @ + Len(<<entry>>)]
    BY <1>3 DEF SendEntries
  <2>2. session = [session EXCEPT !.resumed = session.resumed]
    BY <1>3 DEF TransportInv, SessionInv, IsSession
  <2>3. session' = [[session EXCEPT !.resumed = session.resumed]
                      EXCEPT !.out = @ + Len(<<entry>>)]
    BY <2>1, <2>2
  <2> QED
    BY <1>1, <1>3, <2>3, SendingKeeps DEF NewEpoch
<1> QED
  BY <1>2, <1>3 DEF QueueOutbound

(* A phone's step and the passing of time leave the bridge as it is, but   *)
(* for the age of the code.                                                *)
LEMMA TransportStep ==
  ASSUME ChannelInv, [Next]_vars
  PROVE  TransportInv' /\ NewEpoch
<1> USE DEF ChannelInv
<1>1. CASE ReceiveFrame
  <2>1. toBridge # <<>> /\ HandleIncoming(Head(toBridge))
    BY <1>1 DEF ReceiveFrame
  <2>2. Head(toBridge) = toBridge[1] /\ 1 \in DOMAIN toBridge
    BY <2>1, TailOfSequence DEF CounterInv
  <2>3. Head(toBridge).kind = "encryptedEnvelope" => Head(toBridge).counter \in Nat
    BY <2>2 DEF CounterInv
  <2> QED
    BY <2>1, <2>3, FrameKeeps
<1>2. ASSUME NEW size \in Sizes, QueueOutbound(size)
      PROVE  TransportInv' /\ NewEpoch
  BY <1>2, QueueKeeps
<1>3. CASE ExpirePairing
  <2>1. /\ UNCHANGED <<trusted, handshake, session, nextEpoch, heard>>
        /\ pairing # "none" /\ pairing' # "none"
    BY <1>3 DEF ExpirePairing
  <2> QED
    BY <2>1, IdleKeeps DEF NewEpoch
<1>4. CASE UNCHANGED <<pairing, trusted, handshake, session, nextEpoch, heard>>
  BY <1>4, IdleKeeps DEF NewEpoch
<1>5. ASSUME NEW p \in Phones,
             \/ \E mode \in Modes : Connect(p, mode)
             \/ Disconnect(p)
             \/ Authenticate(p) \/ Resume(p) \/ Apply(p) \/ Ignore(p)
             \/ SendEnvelope(p)
      PROVE  UNCHANGED <<pairing, trusted, handshake, session, nextEpoch, heard>>
  BY <1>5 DEF Connect, Disconnect, Authenticate, Resume, Apply, Ignore, SendEnvelope, PhoneStep
<1>6. ASSUME NEW m \in aired, Repeat(m)
      PROVE  UNCHANGED <<pairing, trusted, handshake, session, nextEpoch, heard>>
  BY <1>6 DEF Repeat, PhoneStep
<1>7. CASE UNCHANGED vars
  BY <1>4, <1>7 DEF vars, transportVars
<1> QED
  BY <1>1, <1>2, <1>3, <1>4, <1>5, <1>6, <1>7 DEF Next, Bridge

-----------------------------------------------------------------------------
(***************************************************************************)
(* The counters on the wire.                                               *)
(***************************************************************************)

WireOK ==
  /\ Sequence(toBridge)
  /\ \A k \in DOMAIN toBridge :
       toBridge[k].kind = "encryptedEnvelope" => toBridge[k].counter \in Nat

LEMMA SendKeepsWire ==
  ASSUME WireOK, NEW m, m.kind = "encryptedEnvelope" => m.counter \in Nat, ToBridge(m)
  PROVE  WireOK'
<1>1. toBridge' = Append(toBridge, m) /\ Sequence(toBridge)
  BY DEF ToBridge, WireOK
<1>2. /\ Sequence(toBridge') /\ DOMAIN toBridge' = 1..(Len(toBridge) + 1)
      /\ DOMAIN toBridge = 1..Len(toBridge) /\ Len(toBridge) \in Nat
      /\ \A k \in 1..Len(toBridge) : toBridge'[k] = toBridge[k]
      /\ toBridge'[Len(toBridge) + 1] = m
  BY <1>1, AppendToSequence
<1> QED
  BY <1>2 DEF WireOK

LEMMA ReceiveKeepsWire ==
  ASSUME WireOK, ReceiveFrame
  PROVE  WireOK'
<1>1. toBridge # <<>> /\ toBridge' = Tail(toBridge) /\ Sequence(toBridge)
  BY DEF ReceiveFrame, WireOK
<1>2. /\ Sequence(toBridge') /\ DOMAIN toBridge' = 1..(Len(toBridge) - 1)
      /\ DOMAIN toBridge = 1..Len(toBridge) /\ Len(toBridge) \in Nat \ {0}
      /\ \A k \in 1..(Len(toBridge) - 1) : toBridge'[k] = toBridge[k + 1]
  BY <1>1, TailOfSequence
<1> QED
  BY <1>2 DEF WireOK

PhonesOK ==
  /\ \E S : phone \in [Phones -> S]
  /\ \A p \in Phones :
       phone[p].step \in {"auth", "ready"} => IsOnline(phone[p]) /\ phone[p].counter \in Nat

(* One phone's state changes. *)
LEMMA PhoneKeeps ==
  ASSUME PhonesOK, NEW p \in Phones, NEW d, phone' = [phone EXCEPT ![p] = d],
         d.step \in {"auth", "ready"} => IsOnline(d) /\ d.counter \in Nat
  PROVE  PhonesOK'
<1>1. PICK S : phone \in [Phones -> S]
  BY DEF PhonesOK
<1>2. phone' \in [Phones -> S \cup {d}]
  BY <1>1
<1>3. \A q \in Phones : phone'[q] = IF q = p THEN d ELSE phone[q]
  BY <1>1
<1> QED
  BY <1>2, <1>3 DEF PhonesOK

LEMMA CountersStep ==
  ASSUME CounterInv, [Next]_vars
  PROVE  CounterInv'
<1>1. WireOK /\ PhonesOK /\ \A m \in aired : m.counter \in Nat
  BY DEF CounterInv, WireOK, PhonesOK
<1> DEFINE Kept == WireOK' /\ PhonesOK' /\ \A m \in aired' : m.counter \in Nat
<1> SUFFICES Kept
  BY DEF CounterInv, WireOK, PhonesOK
<1>2. CASE Bridge /\ UNCHANGED phoneVars
  <2>1. PhonesOK' /\ \A m \in aired' : m.counter \in Nat
    BY <1>1, <1>2 DEF phoneVars, PhonesOK
  <2>2. CASE ReceiveFrame
    BY <1>1, <2>1, <2>2, ReceiveKeepsWire
  <2>3. CASE UNCHANGED toBridge
    BY <1>1, <2>1, <2>3 DEF WireOK
  <2> QED
    BY <1>2, <2>2, <2>3 DEF Bridge, QueueOutbound, ExpirePairing, relayVars
<1>3. ASSUME NEW p \in Phones, NEW mode \in Modes, Connect(p, mode)
      PROVE  Kept
  <2>1. /\ aired' = aired
        /\ phone' = [phone EXCEPT ![p] = [step |-> "hello", mode |-> mode, cnonce |-> nonces']]
        /\ ToBridge([kind |-> "clientHello", phone |-> p, mode |-> mode,
                     secret |-> ProofSecret(p, mode), cnonce |-> nonces'])
    BY <1>3 DEF Connect
  <2>2. WireOK'
    BY <1>1, <2>1, SendKeepsWire
  <2>3. PhonesOK'
    BY <1>1, <2>1, PhoneKeeps
  <2> QED
    BY <1>1, <2>1, <2>2, <2>3
<1>4. ASSUME NEW p \in Phones, Disconnect(p)
      PROVE  Kept
  <2>1. aired' = aired /\ toBridge' = toBridge /\ phone' = [phone EXCEPT ![p] = Away]
    BY <1>4 DEF Disconnect, Drop
  <2>2. PhonesOK'
    BY <1>1, <2>1, PhoneKeeps DEF Away
  <2> QED
    BY <1>1, <2>1, <2>2 DEF WireOK
<1>5. ASSUME NEW p \in Phones, Authenticate(p)
      PROVE  Kept
  <2>1. PICK k, f : /\ phone' = [phone EXCEPT ![p] = [step |-> "auth", counter |-> 0, key |-> k]]
                    /\ ToBridge(f) /\ f.kind = "clientAuth"
                    /\ aired' = aired
    BY <1>5 DEF Authenticate
  <2>2. WireOK'
    BY <1>1, <2>1, SendKeepsWire
  <2>3. PhonesOK'
    BY <1>1, <2>1, PhoneKeeps DEF IsOnline
  <2> QED
    BY <1>1, <2>1, <2>2, <2>3
<1>6. ASSUME NEW p \in Phones, Resume(p)
      PROVE  Kept
  <2>1. /\ phone' = [phone EXCEPT ![p] = [phone[p] EXCEPT !.step = "ready"]]
        /\ ToBridge([kind |-> "resumeState", epoch |-> phone[p].key.epoch,
                     last |-> lastApplied[p]])
        /\ aired' = aired
        /\ phone[p].step = "auth"
    BY <1>1, <1>6 DEF Resume, OwnSecureReady, PhonesOK
  <2>2. WireOK'
    BY <1>1, <2>1, SendKeepsWire
  <2>3. IsOnline(phone[p]) /\ phone[p].counter \in Nat
    BY <1>1, <2>1 DEF PhonesOK
  <2>4. LET d == [phone[p] EXCEPT !.step = "ready"] IN IsOnline(d) /\ d.counter \in Nat
    BY <2>3 DEF IsOnline
  <2>5. PhonesOK'
    BY <1>1, <2>1, <2>4, PhoneKeeps
  <2> QED
    BY <1>1, <2>1, <2>2, <2>5
<1>7. ASSUME NEW p \in Phones, Apply(p) \/ Ignore(p)
      PROVE  Kept
  BY <1>1, <1>7 DEF Apply, Ignore, phoneVars, WireOK, PhonesOK
<1>8. ASSUME NEW p \in Phones, SendEnvelope(p)
      PROVE  Kept
  <2> DEFINE n == phone[p].counter + 1
             m == [kind |-> "encryptedEnvelope", epoch |-> phone[p].key.epoch, counter |-> n,
                   key |-> phone[p].key]
  <2>1. /\ phone' = [phone EXCEPT ![p] = [phone[p] EXCEPT !.counter = n]]
        /\ ToBridge(m) /\ aired' = aired \cup {m}
        /\ phone[p].step = "ready"
    BY <1>1, <1>8 DEF SendEnvelope, PhonesOK
  <2>2. IsOnline(phone[p]) /\ n \in Nat
    BY <1>1, <2>1 DEF PhonesOK
  <2>3. WireOK'
    BY <1>1, <2>1, <2>2, SendKeepsWire
  <2>4. LET d == [phone[p] EXCEPT !.counter = n] IN IsOnline(d) /\ d.counter \in Nat
    BY <2>2 DEF IsOnline
  <2>5. PhonesOK'
    BY <1>1, <2>1, <2>4, PhoneKeeps
  <2> QED
    BY <1>1, <2>1, <2>2, <2>3, <2>5
<1>9. ASSUME NEW m \in aired, Repeat(m)
      PROVE  Kept
  <2>1. ToBridge(m) /\ UNCHANGED phoneVars
    BY <1>9 DEF Repeat
  <2>2. WireOK'
    BY <1>1, <2>1, SendKeepsWire
  <2> QED
    BY <1>1, <2>1, <2>2 DEF phoneVars, PhonesOK
<1>10. CASE UNCHANGED vars
  BY <1>1, <1>10 DEF vars, relayVars, phoneVars, WireOK, PhonesOK
<1> QED
  BY <1>2, <1>3, <1>4, <1>5, <1>6, <1>7, <1>8, <1>9, <1>10 DEF Next

-----------------------------------------------------------------------------
(***************************************************************************)
(* The theorems about pairing, sessions and what phones send.              *)
(***************************************************************************)

(* The invariant is inductive: whatever the phones and the network do, it  *)
(* holds of the bridge.                                                    *)
THEOREM ChannelInductive == Spec => []ChannelInv
<1>1. ChannelInv /\ [Next]_vars => ChannelInv'
  BY TransportStep, CountersStep DEF ChannelInv
<1> QED
  BY <1>1, InitHolds, PTL DEF Spec

(* The code of a run pairs at most one phone, however the handshakes of    *)
(* several phones overlap and whenever the code expires.                   *)
THEOREM PairsOnePhone == Spec => []OnePhonePerCode
<1>1. ChannelInv => OnePhonePerCode
  BY DEF ChannelInv, TransportInv, PairingInv
<1> QED
  BY <1>1, ChannelInductive, PTL

(* No envelope is handed to the application twice, and those of a session  *)
(* come in the order of their counters, whatever is repeated on the way.   *)
THEOREM ReplaysRefused == Spec => []NoReplay
<1>1. ChannelInv => NoReplay
  BY DEF ChannelInv, TransportInv, HeardInv
<1> QED
  BY <1>1, ChannelInductive, PTL

(* A session that replaces another has a larger epoch. *)
THEOREM EpochsIncrease == Spec => EpochsGrow
<1>1. ChannelInv /\ [Next]_vars => [NewEpoch]_vars
  BY TransportStep
<1>2. Spec => [][NewEpoch]_vars
  BY <1>1, ChannelInductive, PTL DEF Spec
<1> QED
  BY <1>2 DEF EpochsGrow, NewEpoch

-----------------------------------------------------------------------------
(***************************************************************************)
(* What the operators on the buffer return.                                *)
(***************************************************************************)

Below == {pair \in Nat \X Nat : pair[1] < pair[2]}

(* A set of numbers that is not empty has a least one. *)
LEMMA LeastNumber ==
  ASSUME NEW T \in SUBSET Nat, T # {}
  PROVE  \E n \in T : \A k \in T : n <= k
<1>1. IsWellFoundedOn(Below, Nat)
  BY NatLessThanWellFounded DEF OpToRel, Below
<1>2. PICK n \in T : \A k \in T : ~(<<k, n>> \in Below)
  BY <1>1, WFMin
<1>3. \A k \in T : ~(k < n)
  BY <1>2 DEF Below
<1> QED
  BY <1>3

LEMMA EmptyFits == Fits(<<>>)
<1>1. DOMAIN <<>> = {}
  OBVIOUS
<1>2. Bytes(<<>>) = 0
  BY <1>1 DEF Bytes, FoldLeft, MapThenFoldSet
<1>3. Len(<<>>) = 0
  BY EmptySeq
<1> QED
  BY <1>2, <1>3, LimitsAssumption DEF Fits

(* Trimming drops the k oldest entries, and what it leaves fits. *)
LEMMA TrimDropsOldest ==
  ASSUME NEW b \in Seq(Entry)
  PROVE  \E k \in 0..Len(b) :
           /\ Trim(b) = SubSeq(b, k + 1, Len(b))
           /\ Trim(b) \in Seq(Entry)
           /\ Fits(Trim(b))
           /\ Len(Trim(b)) = Len(b) - k
           /\ \A j \in 1..(Len(b) - k) : Trim(b)[j] = b[j + k]
<1> DEFINE Enough == {n \in 0..Len(b) : Fits(SubSeq(b, n + 1, Len(b)))}
           Least(n) == Fits(SubSeq(b, n + 1, Len(b))) 
                         /\ \A j \in 0..(n - 1) : ~Fits(SubSeq(b, j + 1, Len(b)))
           k == CHOOSE n \in 0..Len(b) : Least(n)
<1>1. Len(b) \in Nat /\ DOMAIN b = 1..Len(b) /\ \A j \in 1..Len(b) : b[j] \in Entry
  BY LenProperties, ElementOfSeq
<1>2. SubSeq(b, Len(b) + 1, Len(b)) = <<>>
  BY <1>1, SubSeqEmpty
<1>3. Len(b) \in Enough
  <2>1. Fits(SubSeq(b, Len(b) + 1, Len(b)))
    BY <1>2, EmptyFits
  <2> QED
    BY <1>1, <2>1
<1>4. Enough \in SUBSET Nat
  BY <1>1
<1>5. PICK n \in Enough : \A j \in Enough : n <= j
  <2> HIDE DEF Enough
  <2> QED
    BY <1>3, <1>4, LeastNumber
<1>6. n \in 0..Len(b) /\ Least(n)
  <2>1. n \in 0..Len(b) /\ Fits(SubSeq(b, n + 1, Len(b)))
    OBVIOUS
  <2>2. ASSUME NEW j \in 0..(n - 1), Fits(SubSeq(b, j + 1, Len(b)))
        PROVE  FALSE
    <3>1. j \in 0..Len(b) /\ j < n
      BY <1>1, <2>1
    <3>2. j \in Enough
      BY <2>2, <3>1
    <3> QED
      BY <1>5, <2>1, <3>1, <3>2
  <2> QED
    BY <2>1, <2>2
<1>7. k \in 0..Len(b) /\ Least(k)
  <2> HIDE DEF Least
  <2> QED
    BY <1>6
<1>8. Trim(b) = SubSeq(b, k + 1, Len(b))
  BY DEF Trim
<1> HIDE DEF k
<1>9. /\ SubSeq(b, k + 1, Len(b)) \in Seq(Entry)
      /\ Len(SubSeq(b, k + 1, Len(b))) = IF k + 1 <= Len(b) THEN Len(b) - (k + 1) + 1 ELSE 0
      /\ \A j \in 1..(Len(b) - (k + 1) + 1) : SubSeq(b, k + 1, Len(b))[j] = b[(k + 1) + j - 1]
  <2>1. k + 1 \in Int /\ Len(b) \in Int /\ \A j \in (k + 1)..Len(b) : b[j] \in Entry
    BY <1>1, <1>7
  <2> QED
    BY <2>1, SubSeqProperties
<1>10. \A j \in 1..(Len(b) - k) : j \in 1..(Len(b) - (k + 1) + 1) /\ (k + 1) + j - 1 = j + k
  BY <1>1, <1>7
<1>11. \A j \in 1..(Len(b) - k) : Trim(b)[j] = b[j + k]
  BY <1>8, <1>9, <1>10
<1>12. Len(Trim(b)) = Len(b) - k
  <2>1. CASE k + 1 <= Len(b)
    <3>1. Len(Trim(b)) = Len(b) - (k + 1) + 1
      BY <1>8, <1>9, <2>1
    <3> QED
      BY <1>1, <1>7, <3>1
  <2>2. CASE ~(k + 1 <= Len(b))
    <3>1. Len(Trim(b)) = 0
      BY <1>8, <1>9, <2>2
    <3> QED
      <4>1. k \in Nat /\ Len(b) \in Nat /\ k <= Len(b)
        BY <1>1, <1>7
      <4>2. k = Len(b)
        BY <2>2, <4>1
      <4> QED
        BY <3>1, <4>1, <4>2
  <2> QED
    BY <2>1, <2>2
<1> QED
  BY <1>7, <1>8, <1>9, <1>11, <1>12

(* Of the entries that are numbered without a gap, those behind a number   *)
(* are the last ones, and all of them.                                     *)
LEMMA MissingIsTheEnd ==
  ASSUME NEW b \in Seq(Entry), NEW next \in Nat, NEW last \in Nat,
         \A k \in DOMAIN b : b[k].seq = next - Len(b) + k - 1
  PROVE  \E skip \in 0..Len(b) :
           /\ \A k \in 1..skip : b[k].seq <= last
           /\ \A k \in (skip + 1)..Len(b) : b[k].seq > last
           /\ Missing(b, last) \in Seq(Entry)
           /\ Len(Missing(b, last)) = Len(b) - skip
           /\ \A n \in 1..(Len(b) - skip) : Missing(b, last)[n] = b[n + skip]
<1> DEFINE P == {k \in DOMAIN b : b[k].seq > last}
           before == last - (next - Len(b)) + 1
           skip == IF before < 0 THEN 0 ELSE IF before > Len(b) THEN Len(b) ELSE before
<1>1. Len(b) \in Nat /\ DOMAIN b = 1..Len(b) /\ \A j \in 1..Len(b) : b[j] \in Entry
  BY LenProperties, ElementOfSeq
<1>2. skip \in 0..Len(b)
  BY <1>1
<1>3. P = (skip + 1)..Len(b)
  BY <1>1
<1>4. (\A k \in 1..skip : b[k].seq <= last) /\ \A k \in (skip + 1)..Len(b) : b[k].seq > last
  <2>1. \A k \in 1..Len(b) : b[k].seq > last <=> k \in (skip + 1)..Len(b)
    BY <1>1, <1>3
  <2>2. \A k \in 1..Len(b) : b[k].seq \in Nat
    BY <1>1 DEF Entry
  <2>3. \A k \in 1..skip : k \in 1..Len(b) /\ k \notin (skip + 1)..Len(b)
    BY <1>1, <1>2
  <2>4. \A k \in (skip + 1)..Len(b) : k \in 1..Len(b)
    BY <1>1, <1>2
  <2> HIDE DEF skip
  <2> QED
    BY <2>1, <2>2, <2>3, <2>4
<1> HIDE DEF skip, P
<1>5. Cardinality(P) = Len(b) - skip
  <2>1. skip + 1 \in Int /\ Len(b) \in Int
    BY <1>1, <1>2
  <2>2. Cardinality(P) = IF skip + 1 > Len(b) THEN 0 ELSE Len(b) - (skip + 1) + 1
    BY <1>3, <2>1, FS_Interval
  <2>3. CASE skip + 1 > Len(b)
    <3>1. skip \in Nat /\ Len(b) \in Nat /\ skip <= Len(b)
      BY <1>1, <1>2
    <3>2. skip = Len(b)
      BY <2>3, <3>1
    <3> QED
      BY <2>2, <2>3, <3>1, <3>2
  <2>4. CASE ~(skip + 1 > Len(b))
    <3>1. Cardinality(P) = Len(b) - (skip + 1) + 1
      BY <2>2, <2>4
    <3> QED
      BY <1>1, <1>2, <3>1
  <2> QED
    BY <2>3, <2>4
<1>6. ASSUME NEW n \in 1..(Len(b) - skip)
      PROVE  (CHOOSE k \in P : Cardinality({j \in P : j <= k}) = n) = n + skip
  <2>1. \A k \in P : {j \in P : j <= k} = (skip + 1)..k
    BY <1>1, <1>2, <1>3
  <2>2. \A k \in P : Cardinality({j \in P : j <= k}) = k - skip
    <3> SUFFICES ASSUME NEW k \in P PROVE Cardinality((skip + 1)..k) = k - skip
      BY <2>1
    <3>1. k \in Int /\ skip + 1 \in Int /\ skip + 1 <= k
      BY <1>1, <1>2, <1>3
    <3> QED
      BY <1>2, <3>1, FS_Interval
  <2>3. n + skip \in P
    BY <1>1, <1>2, <1>3
  <2>4. \A k \in P : Cardinality({j \in P : j <= k}) = n => k = n + skip
    BY <1>1, <1>2, <1>3, <2>2
  <2>5. Cardinality({j \in P : j <= n + skip}) = n
    BY <1>1, <1>2, <2>2, <2>3
  <2> QED
    BY <2>3, <2>4, <2>5
<1>7. Missing(b, last) = [n \in 1..(Len(b) - skip) |-> b[n + skip]]
  <2>1. Missing(b, last)
          = [n \in 1..Cardinality(P) |-> b[CHOOSE k \in P : Cardinality({j \in P : j <= k}) = n]]
    BY DEF Missing, Picked, P
  <2> QED
    BY <1>5, <1>6, <2>1
<1>8. [n \in 1..(Len(b) - skip) |-> b[n + skip]] \in [1..(Len(b) - skip) -> Entry]
  BY <1>1, <1>2
<1>9. Len(b) - skip \in Nat
  BY <1>1, <1>2
<1>10. Missing(b, last) \in Seq(Entry)
  <2>1. Missing(b, last) \in [1..(Len(b) - skip) -> Entry]
    BY <1>7, <1>8
  <2> QED
    BY <1>9, <2>1, SeqDef
<1>11. Len(Missing(b, last)) = Len(b) - skip
  BY <1>7, <1>9, <1>10, LenProperties
<1> QED
  BY <1>2, <1>4, <1>7, <1>10, <1>11

-----------------------------------------------------------------------------
(***************************************************************************)
(* Types.                                                                  *)
(***************************************************************************)

LEMMA PhoneFrameKinds ==
  ASSUME NEW m \in PhoneFrame
  PROVE  /\ m.kind = "clientHello" => m \in HelloMsg
         /\ m.kind = "clientAuth" => m \in AuthMsg
         /\ m.kind = "resumeState" => m \in ResumeMsg
         /\ m.kind = "encryptedEnvelope" => m \in PhoneEnvelope
         /\ m.kind \in {"clientHello", "clientAuth", "resumeState", "encryptedEnvelope"}
<1> USE DEF HelloMsg, AuthMsg, ResumeMsg, PhoneEnvelope
<1>1. \/ m \in HelloMsg /\ m.kind = "clientHello"
      \/ m \in AuthMsg /\ m.kind = "clientAuth"
      \/ m \in ResumeMsg /\ m.kind = "resumeState"
      \/ m \in PhoneEnvelope /\ m.kind = "encryptedEnvelope"
  BY DEF PhoneFrame
<1> QED
  BY <1>1

LEMMA BridgeFrameKinds ==
  ASSUME NEW m \in BridgeFrame
  PROVE  /\ m.kind = "serverHello" => m \in ServerHello
         /\ m.kind = "secureReady" => m \in SecureReady
         /\ m.kind = "encryptedEnvelope" => m \in BridgeEnvelope
         /\ m.kind \in {"serverHello", "secureReady", "encryptedEnvelope"}
<1> USE DEF ServerHello, SecureReady, BridgeEnvelope
<1>1. \/ m \in ServerHello /\ m.kind = "serverHello"
      \/ m \in SecureReady /\ m.kind = "secureReady"
      \/ m \in BridgeEnvelope /\ m.kind = "encryptedEnvelope"
  BY DEF BridgeFrame
<1> QED
  BY <1>1

LEMMA DeviceSteps ==
  ASSUME NEW d \in Device
  PROVE  /\ d.step \in {"away", "hello", "auth", "ready"}
         /\ d.step = "away" <=> d = Away
         /\ d.step = "hello" => d \in [step : {"hello"}, mode : Modes, cnonce : Nat]
         /\ d.step \in {"auth", "ready"} =>
              d \in [step : {"auth", "ready"}, key : Key, counter : Nat]
<1>1. \/ d = Away
      \/ d \in [step : {"hello"}, mode : Modes, cnonce : Nat]
      \/ d \in [step : {"auth", "ready"}, key : Key, counter : Nat]
  BY DEF Device
<1>2. Away.step = "away"
  BY DEF Away
<1>3. CASE d = Away
  BY <1>2, <1>3
<1>4. CASE d \in [step : {"hello"}, mode : Modes, cnonce : Nat]
  BY <1>2, <1>4
<1>5. CASE d \in [step : {"auth", "ready"}, key : Key, counter : Nat]
  BY <1>2, <1>5
<1> QED
  BY <1>1, <1>3, <1>4, <1>5

InboxOK == inbox \in [Phones -> Seq(BridgeFrame)]

(* A phone in the session gets the frames behind those it has. *)
LEMMA FramesSent ==
  ASSUME InboxOK, NEW frames \in Seq(BridgeFrame), Broadcast(frames)
  PROVE  /\ InboxOK'
         /\ \A p \in Phones :
              IF p \in connected
              THEN /\ Len(inbox[p]) \in Nat /\ Len(frames) \in Nat
                   /\ Len(inbox'[p]) = Len(inbox[p]) + Len(frames)
                   /\ \A k \in 1..Len(inbox[p]) : inbox'[p][k] = inbox[p][k]
                   /\ \A k \in 1..Len(frames) : inbox'[p][Len(inbox[p]) + k] = frames[k]
              ELSE inbox'[p] = inbox[p]
<1>1. ASSUME NEW p \in Phones, p \in connected
      PROVE  /\ inbox'[p] \in Seq(BridgeFrame)
             /\ Len(inbox[p]) \in Nat /\ Len(frames) \in Nat
             /\ Len(inbox'[p]) = Len(inbox[p]) + Len(frames)
             /\ \A k \in 1..Len(inbox[p]) : inbox'[p][k] = inbox[p][k]
             /\ \A k \in 1..Len(frames) : inbox'[p][Len(inbox[p]) + k] = frames[k]
  <2>1. inbox[p] \in Seq(BridgeFrame) /\ inbox'[p] = inbox[p] \o frames
    BY <1>1 DEF InboxOK, Broadcast
  <2>2. Len(inbox[p]) \in Nat /\ Len(frames) \in Nat
    BY <2>1, LenProperties
  <2>3. /\ inbox[p] \o frames \in Seq(BridgeFrame)
        /\ Len(inbox[p] \o frames) = Len(inbox[p]) + Len(frames)
        /\ \A i \in 1..(Len(inbox[p]) + Len(frames)) : (inbox[p] \o frames)[i] =
             IF i <= Len(inbox[p]) THEN inbox[p][i] ELSE frames[i - Len(inbox[p])]
    BY <2>1, ConcatProperties
  <2> QED
    BY <2>1, <2>2, <2>3
<1>2. ASSUME NEW p \in Phones, p \notin connected
      PROVE  inbox'[p] = inbox[p]
  BY <1>2 DEF Broadcast
<1>3. InboxOK'
  <2>1. \A p \in Phones : inbox'[p] \in Seq(BridgeFrame)
    BY <1>1, <1>2 DEF InboxOK
  <2>2. inbox' = [p \in Phones |-> inbox'[p]]
    BY DEF Broadcast
  <2> QED
    BY <2>1, <2>2 DEF InboxOK
<1> QED
  BY <1>1, <1>2, <1>3

LEMMA OneFrame ==
  ASSUME NEW S, NEW e \in S
  PROVE  <<e>> \in Seq(S) /\ Len(<<e>>) = 1 /\ <<e>>[1] = e /\ DOMAIN <<e>> = {1}
OBVIOUS

LEMMA EnvelopesAreFrames ==
  ASSUME NEW s \in Session, NEW b \in Seq(Entry)
  PROVE  /\ Envelopes(s, b) \in Seq(BridgeFrame)
         /\ Len(Envelopes(s, b)) = Len(b)
         /\ \A k \in 1..Len(b) :
              /\ Envelopes(s, b)[k].kind = "encryptedEnvelope"
              /\ Envelopes(s, b)[k].key = s.key
              /\ Envelopes(s, b)[k].seq = b[k].seq
<1>1. Len(b) \in Nat /\ DOMAIN b = 1..Len(b) /\ \A k \in 1..Len(b) : b[k] \in Entry
  BY LenProperties, ElementOfSeq
<1>2. \A k \in 1..Len(b) : s.out + k - 1 \in Nat /\ b[k].seq \in Nat /\ s.key \in Key
  BY <1>1 DEF Session, Entry
<1>3. Envelopes(s, b) \in [1..Len(b) -> BridgeEnvelope]
  BY <1>1, <1>2 DEF Envelopes, BridgeEnvelope
<1>4. Envelopes(s, b) \in Seq(BridgeEnvelope)
  BY <1>1, <1>3, SeqDef
<1>5. Envelopes(s, b) \in Seq(BridgeFrame)
  BY <1>4, SeqMonotonic DEF BridgeFrame
<1>6. Len(Envelopes(s, b)) = Len(b)
  BY <1>1, <1>3, <1>4, LenProperties
<1> QED
  BY <1>1, <1>5, <1>6 DEF Envelopes

(* A secret that is not the code: what a trusted phone proves it has. *)
SecretInv ==
  /\ handshake # None /\ handshake.mode = "trusted_reconnect" => handshake.secret \in SharedSecrets
  /\ \A p \in Phones :
       phone[p].step = "hello" /\ phone[p].mode = "trusted_reconnect" => shared[p] # "none"

RecentInv == TypeOK /\ SecretInv /\ BufferIsRecent

(* What the bridge's own steps keep. *)
BridgeSide ==
  /\ TransportTypeOK
  /\ InboxOK
  /\ handshake # None /\ handshake.mode = "trusted_reconnect" => handshake.secret \in SharedSecrets
  /\ BufferIsRecent

LEMMA HelloTypes ==
  ASSUME BridgeSide, NEW m \in PhoneFrame, HandleClientHello(m)
  PROVE  BridgeSide'
<1> USE DEF BridgeSide
<1>1. m \in HelloMsg /\ m.phone \in Phones /\ m.mode \in Modes /\ m.secret \in Secrets
        /\ m.cnonce \in Nat
  BY PhoneFrameKinds DEF HandleClientHello, HelloMsg
<1>2. nonces' = nonces + 1 /\ nonces \in Nat /\ nextEpoch \in Nat
  BY DEF HandleClientHello, TransportTypeOK
<1>3. handshake' = [phone |-> m.phone, mode |-> m.mode, secret |-> m.secret,
                    cnonce |-> m.cnonce, snonce |-> nonces', epoch |-> nextEpoch]
  BY DEF HandleClientHello
<1>4. handshake' \in Pending
  BY <1>1, <1>2, <1>3 DEF Pending
<1>5. handshake'.mode = "trusted_reconnect" => handshake'.secret \in SharedSecrets
  <2> SUFFICES ASSUME m.mode = "trusted_reconnect" PROVE m.secret \in SharedSecrets
    BY <1>3
  <2>1. trusted[m.phone] # "none" /\ m.secret = trusted[m.phone]
    BY DEF HandleClientHello, AcceptsHello
  <2> QED
    BY <1>1, <2>1 DEF TransportTypeOK
<1>6. InboxOK'
  <2> DEFINE f == [kind |-> "serverHello", phone |-> m.phone, cnonce |-> m.cnonce,
                   snonce |-> nonces', epoch |-> nextEpoch]
  <2>1. f \in BridgeFrame
    BY <1>1, <1>2 DEF BridgeFrame, ServerHello
  <2>2. Broadcast(<<f>>)
    BY DEF HandleClientHello
  <2> HIDE DEF f
  <2> QED
    BY <2>1, <2>2, OneFrame, FramesSent
<1>7. UNCHANGED <<pairing, trusted, session, nextEpoch, nextSeq, buffer, heard>>
  BY DEF HandleClientHello
<1>8. TransportTypeOK'
  BY <1>2, <1>4, <1>7 DEF TransportTypeOK
<1>9. BufferIsRecent'
  BY <1>7 DEF BufferIsRecent
<1> QED
  BY <1>5, <1>6, <1>8, <1>9

LEMMA AuthTypes ==
  ASSUME BridgeSide, NEW m \in PhoneFrame, HandleClientAuth(m)
  PROVE  BridgeSide'
<1> USE DEF BridgeSide
<1>1. handshake # None /\ handshake \in Pending
  BY DEF HandleClientAuth, AcceptsAuth, TransportTypeOK
<1>2. /\ handshake.phone \in Phones /\ handshake.mode \in Modes /\ handshake.cnonce \in Nat
      /\ handshake.snonce \in Nat /\ handshake.epoch \in Nat
  BY <1>1 DEF Pending
<1>3. SessionSecret \in SharedSecrets
  BY <1>1, <1>2 DEF SessionSecret, SharedSecrets, Modes
<1>4. NewSession \in Session
  BY <1>2, <1>3 DEF NewSession, Session, Key
<1>5. pairing' \in {"open", "expired", "none"}
        /\ trusted' \in [Phones -> SharedSecrets \cup {"none"}]
  BY <1>2 DEF HandleClientAuth, Remember, TransportTypeOK, SharedSecrets
<1>6. InboxOK'
  <2> DEFINE f == [kind |-> "secureReady", epoch |-> handshake.epoch]
  <2>1. f \in BridgeFrame
    BY <1>2 DEF BridgeFrame, SecureReady
  <2>2. Broadcast(<<f>>)
    BY DEF HandleClientAuth
  <2> HIDE DEF f
  <2> QED
    BY <2>1, <2>2, OneFrame, FramesSent
<1>7. /\ session' = NewSession /\ handshake' = None /\ nextEpoch' = nextEpoch + 1
      /\ UNCHANGED <<nextSeq, buffer, nonces, heard>>
  BY DEF HandleClientAuth
<1>8. TransportTypeOK'
  BY <1>4, <1>5, <1>7 DEF TransportTypeOK
<1>9. BufferIsRecent'
  BY <1>7 DEF BufferIsRecent
<1> QED
  BY <1>6, <1>7, <1>8, <1>9

(* Sending entries of the buffer under a session. *)
LEMMA SendingTypes ==
  ASSUME InboxOK, NEW s \in Session, NEW b \in Seq(Entry), SendEntries(s, b)
  PROVE  InboxOK' /\ session' \in Session
<1>1. InboxOK'
  BY EnvelopesAreFrames, FramesSent DEF SendEntries
<1>2. Len(b) \in Nat
  BY LenProperties
<1>3. session' = [s EXCEPT !.out = @ + Len(b)]
  BY DEF SendEntries
<1>4. s.out + Len(b) \in Nat
  BY <1>2 DEF Session
<1> QED
  BY <1>1, <1>3, <1>4 DEF Session

LEMMA ResumeTypes ==
  ASSUME BridgeSide, NEW m \in PhoneFrame, HandleResumeState(m)
  PROVE  BridgeSide'
<1> USE DEF BridgeSide
<1>1. m.last \in Nat
  BY PhoneFrameKinds DEF HandleResumeState, ResumeMsg
<1>2. [session EXCEPT !.resumed = TRUE] \in Session
  BY DEF HandleResumeState, AcceptsResume, TransportTypeOK, Session
<1>3. Missing(buffer, m.last) \in Seq(Entry)
  BY <1>1, MissingIsTheEnd DEF TransportTypeOK, BufferIsRecent
<1>4. InboxOK' /\ session' \in Session
  BY <1>2, <1>3, SendingTypes DEF HandleResumeState
<1>5. UNCHANGED <<pairing, trusted, handshake, nextEpoch, nextSeq, buffer, nonces, heard>>
  BY DEF HandleResumeState
<1>6. TransportTypeOK' /\ BufferIsRecent'
  BY <1>4, <1>5 DEF TransportTypeOK, BufferIsRecent
<1> QED
  BY <1>4, <1>5, <1>6

LEMMA EnvelopeTypes ==
  ASSUME BridgeSide, NEW m \in PhoneFrame, HandleEncryptedEnvelope(m)
  PROVE  BridgeSide'
<1> USE DEF BridgeSide
<1>1. m.counter \in Nat /\ m.key \in Key
  BY PhoneFrameKinds DEF HandleEncryptedEnvelope, PhoneEnvelope
<1>2. /\ session # None /\ session' = [session EXCEPT !.in = m.counter]
      /\ heard' = Append(heard, [key |-> m.key, counter |-> m.counter])
      /\ UNCHANGED <<pairing, trusted, handshake, nextEpoch, nextSeq, buffer, nonces, inbox>>
  BY DEF HandleEncryptedEnvelope, AcceptsEnvelope
<1>3. session' \in Session
  BY <1>1, <1>2 DEF TransportTypeOK, Session
<1>4. heard' \in Seq([key : Key, counter : Nat])
  <2>1. [key |-> m.key, counter |-> m.counter] \in [key : Key, counter : Nat]
    BY <1>1
  <2> QED
    BY <1>2, <2>1, AppendProperties DEF TransportTypeOK
<1>5. TransportTypeOK'
  BY <1>2, <1>3, <1>4 DEF TransportTypeOK
<1> QED
  BY <1>2, <1>5 DEF InboxOK, BufferIsRecent

(* What is queued is the newest entry, numbered behind those before it. *)
LEMMA QueueTypes ==
  ASSUME BridgeSide, NEW size \in Sizes, QueueOutbound(size)
  PROVE  /\ BridgeSide'
         /\ \A n \in Nat : Buffered(n)' => Buffered(n) \/ n = nextSeq
<1> USE DEF BridgeSide
<1> DEFINE entry == [seq |-> nextSeq, size |-> size]
           all == Append(buffer, entry)
<1>1. entry \in Entry /\ nextSeq \in Nat /\ nextSeq' = nextSeq + 1 /\ buffer' = Trim(all)
  BY DEF QueueOutbound, TransportTypeOK, Entry
<1>2. buffer \in Seq(Entry) /\ Len(buffer) \in Nat /\ DOMAIN buffer = 1..Len(buffer)
  BY LenProperties DEF TransportTypeOK
<1> HIDE DEF entry
<1>3. /\ all \in Seq(Entry) /\ Len(all) = Len(buffer) + 1
      /\ \A k \in 1..Len(buffer) : all[k] = buffer[k]
      /\ all[Len(buffer) + 1] = entry
  BY <1>1, <1>2, AppendProperties
<1>4. \A k \in 1..Len(all) : all[k].seq = nextSeq' - Len(all) + k - 1
  <2> SUFFICES ASSUME NEW k \in 1..(Len(buffer) + 1)
               PROVE  all[k].seq = nextSeq' - (Len(buffer) + 1) + k - 1
    BY <1>3
  <2>1. CASE k \in 1..Len(buffer)
    <3>1. all[k].seq = nextSeq - Len(buffer) + k - 1
      BY <1>2, <1>3, <2>1 DEF BufferIsRecent
    <3> QED
      BY <1>1, <1>2, <2>1, <3>1
  <2>2. CASE k = Len(buffer) + 1
    <3>1. all[k].seq = nextSeq
      BY <1>3, <2>2 DEF entry
    <3> QED
      BY <1>1, <1>2, <2>2, <3>1
  <2> QED
    BY <1>2, <2>1, <2>2
<1>5. PICK n \in 0..Len(all) :
        /\ buffer' \in Seq(Entry) /\ Fits(buffer')
        /\ Len(buffer') = Len(all) - n
        /\ \A j \in 1..(Len(all) - n) : buffer'[j] = all[j + n]
  <2> HIDE DEF all
  <2> QED
    BY <1>1, <1>3, TrimDropsOldest
<1>6. Len(all) \in Nat /\ Len(buffer') \in Nat /\ DOMAIN buffer' = 1..Len(buffer')
  BY <1>2, <1>3, <1>5, LenProperties
<1> HIDE DEF all
<1>7. \A k \in 1..Len(buffer') : k + n \in 1..Len(all) /\ buffer'[k] = all[k + n]
  BY <1>5, <1>6
<1>8. BufferIsRecent'
  <2>1. \A k \in 1..Len(buffer') : buffer'[k].seq = nextSeq' - Len(buffer') + k - 1
    <3> SUFFICES ASSUME NEW k \in 1..Len(buffer')
                 PROVE  buffer'[k].seq = nextSeq' - Len(buffer') + k - 1
      OBVIOUS
    <3>1. buffer'[k].seq = nextSeq' - Len(all) + (k + n) - 1
      BY <1>4, <1>7
    <3> QED
      BY <1>1, <1>5, <1>6, <3>1
  <2>2. Fits(buffer)'
    BY <1>5
  <2> QED
    BY <1>6, <2>1, <2>2 DEF BufferIsRecent
<1>9. \A k \in 1..Len(buffer') :
        buffer'[k] = entry \/ \E j \in 1..Len(buffer) : buffer'[k] = buffer[j]
  <2> SUFFICES ASSUME NEW k \in 1..Len(all)
               PROVE  all[k] = entry \/ \E j \in 1..Len(buffer) : all[k] = buffer[j]
    BY <1>7
  <2>1. k \in 1..Len(buffer) \/ k = Len(buffer) + 1
    BY <1>2, <1>3
  <2> QED
    BY <1>3, <2>1
<1>10. \A i \in Nat : Buffered(i)' => Buffered(i) \/ i = nextSeq
  BY <1>2, <1>6, <1>9 DEF Buffered, entry
<1>11. InboxOK' /\ session' \in Session \cup {None}
  <2>1. CASE session # None /\ session.resumed /\ SendEntries(session, <<entry>>)
    <3>1. session \in Session /\ <<entry>> \in Seq(Entry)
      BY <1>1, <2>1 DEF TransportTypeOK
    <3> QED
      BY <2>1, <3>1, SendingTypes
  <2>2. CASE UNCHANGED <<session, inbox>>
    BY <2>2 DEF TransportTypeOK, InboxOK
  <2> QED
    BY <2>1, <2>2 DEF QueueOutbound, entry
<1>12. UNCHANGED <<pairing, trusted, handshake, nextEpoch, nonces, heard>>
  BY DEF QueueOutbound
<1>13. TransportTypeOK'
  BY <1>1, <1>5, <1>11, <1>12 DEF TransportTypeOK
<1> QED
  BY <1>8, <1>10, <1>11, <1>12, <1>13

LEMMA FrameTypes ==
  ASSUME BridgeSide, NEW m \in PhoneFrame, HandleIncoming(m)
  PROVE  BridgeSide'
<1>1. CASE Refuse(m)
  BY <1>1 DEF Refuse, transportVars, BridgeSide, TransportTypeOK, InboxOK, BufferIsRecent
<1> QED
  BY <1>1, HelloTypes, AuthTypes, ResumeTypes, EnvelopeTypes DEF HandleIncoming

(* What the phones' steps keep. *)
PhoneSide ==
  /\ connected \subseteq Phones
  /\ toBridge \in Seq(PhoneFrame)
  /\ phone \in [Phones -> Device]
  /\ shared \in [Phones -> SharedSecrets \cup {"none"}]
  /\ lastApplied \in [Phones -> Nat]
  /\ aired \subseteq PhoneEnvelope
  /\ \A p \in Phones :
       phone[p].step = "hello" /\ phone[p].mode = "trusted_reconnect" => shared[p] # "none"

LEMMA Sides == RecentInv <=> BridgeSide /\ PhoneSide
BY DEF RecentInv, TypeOK, SecretInv, BridgeSide, InboxOK, PhoneSide

LEMMA ToBridgeTypes ==
  ASSUME toBridge \in Seq(PhoneFrame), NEW m \in PhoneFrame, ToBridge(m)
  PROVE  toBridge' \in Seq(PhoneFrame)
BY AppendProperties DEF ToBridge

LEMMA TakeFrameTypes ==
  ASSUME InboxOK, NEW p \in Phones, inbox[p] # <<>>, TakeFrame(p)
  PROVE  InboxOK' /\ Head(inbox[p]) \in BridgeFrame
<1>1. inbox[p] \in Seq(BridgeFrame)
  BY DEF InboxOK
<1>2. Head(inbox[p]) \in BridgeFrame /\ Tail(inbox[p]) \in Seq(BridgeFrame)
  BY <1>1, HeadTailProperties
<1> QED
  BY <1>2 DEF TakeFrame, InboxOK

(* A phone's step leaves the bridge's variables but for its own inbox. *)
LEMMA PhoneStepTypes ==
  ASSUME BridgeSide, PhoneStep, nonces' \in Nat, InboxOK'
  PROVE  BridgeSide'
BY DEF BridgeSide, PhoneStep, TransportTypeOK, BufferIsRecent

LEMMA ConnectTypes ==
  ASSUME BridgeSide, PhoneSide, NEW p \in Phones, NEW mode \in Modes, Connect(p, mode)
  PROVE  BridgeSide' /\ PhoneSide'
<1> USE DEF PhoneSide
<1>1. nonces' = nonces + 1 /\ nonces' \in Nat
  BY DEF Connect, BridgeSide, TransportTypeOK
<1>2. InboxOK'
  BY EmptySeq DEF Connect, Join, BridgeSide, InboxOK
<1>3. BridgeSide'
  BY <1>1, <1>2, PhoneStepTypes DEF Connect
<1>4. ProofSecret(p, mode) \in Secrets
  BY DEF Connect, ProofSecret, Secrets, Modes
<1>5. toBridge' \in Seq(PhoneFrame)
  <2> DEFINE m == [kind |-> "clientHello", phone |-> p, mode |-> mode,
                   secret |-> ProofSecret(p, mode), cnonce |-> nonces']
  <2>1. m \in PhoneFrame
    BY <1>1, <1>4 DEF PhoneFrame, HelloMsg
  <2>2. ToBridge(m)
    BY DEF Connect
  <2> HIDE DEF m
  <2> QED
    BY <2>1, <2>2, ToBridgeTypes
<1>6. connected' \subseteq Phones /\ UNCHANGED <<shared, lastApplied, aired>>
  BY DEF Connect, Join
<1> DEFINE d == [step |-> "hello", mode |-> mode, cnonce |-> nonces']
<1>7. d \in Device /\ phone' = [phone EXCEPT ![p] = d]
  BY <1>1 DEF Device, Connect
<1>8. mode = "trusted_reconnect" => shared[p] # "none"
  BY DEF Connect
<1>9. \A q \in Phones :
        phone'[q].step = "hello" /\ phone'[q].mode = "trusted_reconnect" => shared[q] # "none"
  BY <1>7, <1>8
<1> QED
  BY <1>3, <1>5, <1>6, <1>7, <1>9

LEMMA DisconnectTypes ==
  ASSUME BridgeSide, PhoneSide, NEW p \in Phones, Disconnect(p)
  PROVE  BridgeSide' /\ PhoneSide'
<1> USE DEF PhoneSide
<1>1. nonces' \in Nat
  BY DEF Disconnect, BridgeSide, TransportTypeOK
<1>2. InboxOK'
  BY EmptySeq DEF Disconnect, Drop, BridgeSide, InboxOK
<1>3. BridgeSide'
  BY <1>1, <1>2, PhoneStepTypes DEF Disconnect
<1>4. Away \in Device /\ Away.step = "away" /\ phone' = [phone EXCEPT ![p] = Away]
  BY DEF Device, Away, Disconnect
<1>5. connected' \subseteq Phones /\ UNCHANGED <<toBridge, shared, lastApplied, aired>>
  BY DEF Disconnect, Drop
<1> QED
  BY <1>3, <1>4, <1>5

LEMMA AuthenticateTypes ==
  ASSUME BridgeSide, PhoneSide, NEW p \in Phones, Authenticate(p)
  PROVE  BridgeSide' /\ PhoneSide'
<1> USE DEF PhoneSide
<1>1. nonces' \in Nat
  BY DEF Authenticate, BridgeSide, TransportTypeOK
<1>2. InboxOK' /\ Head(inbox[p]) \in BridgeFrame
  BY TakeFrameTypes DEF Authenticate, BridgeSide
<1>3. BridgeSide'
  BY <1>1, <1>2, PhoneStepTypes DEF Authenticate
<1>4. PICK m \in BridgeFrame :
        /\ OwnServerHello(p, m)
        /\ phone' = [phone EXCEPT ![p] =
             [step |-> "auth", counter |-> 0,
              key |-> [phone |-> p, cnonce |-> m.cnonce, snonce |-> m.snonce, epoch |-> m.epoch,
                       secret |-> IF ProofSecret(p, phone[p].mode) = "code" THEN "derived"
                                  ELSE ProofSecret(p, phone[p].mode)]]]
        /\ ToBridge([kind |-> "clientAuth", phone |-> p,
                     secret |-> ProofSecret(p, phone[p].mode),
                     cnonce |-> m.cnonce, snonce |-> m.snonce, epoch |-> m.epoch])
  BY <1>2 DEF Authenticate
<1>5. m.cnonce \in Nat /\ m.snonce \in Nat /\ m.epoch \in Nat
  BY <1>4, BridgeFrameKinds DEF OwnServerHello, ServerHello
<1> DEFINE s == ProofSecret(p, phone[p].mode)
<1>6. phone[p].step = "hello" /\ phone[p].mode \in Modes
  BY <1>4, DeviceSteps DEF OwnServerHello
<1>7. s \in Secrets /\ (s # "code" => s \in SharedSecrets)
  BY <1>6 DEF ProofSecret, Modes, Secrets, SharedSecrets
<1> HIDE DEF s
<1> DEFINE d == [step |-> "auth", counter |-> 0,
                 key |-> [phone |-> p, cnonce |-> m.cnonce, snonce |-> m.snonce,
                          epoch |-> m.epoch,
                          secret |-> IF s = "code" THEN "derived" ELSE s]]
<1>8. d \in Device
  <2>1. d.key \in Key
    BY <1>5, <1>7 DEF Key, SharedSecrets
  <2>2. d \in [step : {"auth", "ready"}, key : Key, counter : Nat]
    BY <2>1
  <2> QED
    BY <2>2 DEF Device
<1>9. toBridge' \in Seq(PhoneFrame)
  <2> DEFINE f == [kind |-> "clientAuth", phone |-> p, secret |-> s,
                   cnonce |-> m.cnonce, snonce |-> m.snonce, epoch |-> m.epoch]
  <2>1. f \in PhoneFrame
    BY <1>5, <1>7 DEF PhoneFrame, AuthMsg
  <2>2. ToBridge(f)
    BY <1>4 DEF s
  <2> HIDE DEF f
  <2> QED
    BY <2>1, <2>2, ToBridgeTypes
<1>10. phone' = [phone EXCEPT ![p] = d]
  BY <1>4 DEF s
<1>11. UNCHANGED <<connected, shared, lastApplied, aired>>
  BY DEF Authenticate
<1>12. d.step = "auth"
  OBVIOUS
<1> HIDE DEF d
<1> QED
  BY <1>3, <1>8, <1>9, <1>10, <1>11, <1>12

LEMMA ResumeStepTypes ==
  ASSUME BridgeSide, PhoneSide, NEW p \in Phones, Resume(p)
  PROVE  BridgeSide' /\ PhoneSide'
<1> USE DEF PhoneSide
<1>1. nonces' \in Nat
  BY DEF Resume, BridgeSide, TransportTypeOK
<1>2. InboxOK'
  BY TakeFrameTypes DEF Resume, BridgeSide
<1>3. BridgeSide'
  BY <1>1, <1>2, PhoneStepTypes DEF Resume
<1>4. phone[p].step = "auth"
  BY DEF Resume, OwnSecureReady
<1>5. phone[p] \in [step : {"auth", "ready"}, key : Key, counter : Nat]
  BY <1>4, DeviceSteps
<1>6. phone[p].key \in Key /\ phone[p].key.epoch \in Nat /\ phone[p].key.secret \in SharedSecrets
  BY <1>5 DEF Key
<1> DEFINE d == [phone[p] EXCEPT !.step = "ready"]
<1>7. d \in Device /\ d.step = "ready" /\ phone' = [phone EXCEPT ![p] = d]
  BY <1>5 DEF Device, Resume
<1>8. toBridge' \in Seq(PhoneFrame)
  <2> DEFINE f == [kind |-> "resumeState", epoch |-> phone[p].key.epoch,
                   last |-> lastApplied[p]]
  <2>1. f \in PhoneFrame
    BY <1>6 DEF PhoneFrame, ResumeMsg
  <2>2. ToBridge(f)
    BY DEF Resume
  <2> HIDE DEF f
  <2> QED
    BY <2>1, <2>2, ToBridgeTypes
<1>9. shared' = [shared EXCEPT ![p] = phone[p].key.secret]
        /\ UNCHANGED <<connected, lastApplied, aired>>
  BY DEF Resume
<1> HIDE DEF d
<1> QED
  BY <1>3, <1>6, <1>7, <1>8, <1>9

LEMMA ApplyTypes ==
  ASSUME BridgeSide, PhoneSide, NEW p \in Phones, Apply(p)
  PROVE  BridgeSide' /\ PhoneSide'
<1> USE DEF PhoneSide
<1>1. nonces' \in Nat
  BY DEF Apply, BridgeSide, TransportTypeOK
<1>2. InboxOK' /\ Head(inbox[p]) \in BridgeFrame
  BY TakeFrameTypes DEF Apply, BridgeSide
<1>3. BridgeSide'
  BY <1>1, <1>2, PhoneStepTypes DEF Apply
<1>4. PICK m \in BridgeFrame :
        /\ OwnEnvelope(p, m)
        /\ lastApplied' =
             [lastApplied EXCEPT ![p] = IF m.seq > lastApplied[p] THEN m.seq ELSE lastApplied[p]]
  BY <1>2 DEF Apply
<1>5. m.seq \in Nat
  BY <1>4, BridgeFrameKinds DEF OwnEnvelope, BridgeEnvelope
<1>6. UNCHANGED <<connected, toBridge, phone, shared, aired>>
  BY DEF Apply
<1> QED
  BY <1>3, <1>4, <1>5, <1>6

LEMMA SendEnvelopeTypes ==
  ASSUME BridgeSide, PhoneSide, NEW p \in Phones, SendEnvelope(p)
  PROVE  BridgeSide' /\ PhoneSide'
<1> USE DEF PhoneSide
<1>1. nonces' \in Nat /\ InboxOK'
  BY DEF SendEnvelope, BridgeSide, TransportTypeOK, InboxOK
<1>2. BridgeSide'
  BY <1>1, PhoneStepTypes DEF SendEnvelope
<1> DEFINE n == phone[p].counter + 1
           m == [kind |-> "encryptedEnvelope", epoch |-> phone[p].key.epoch, counter |-> n,
                 key |-> phone[p].key]
           d == [phone[p] EXCEPT !.counter = n]
<1>3. phone[p] \in [step : {"auth", "ready"}, key : Key, counter : Nat]
        /\ phone[p].step = "ready"
  BY DeviceSteps DEF SendEnvelope
<1>4. n \in Nat /\ phone[p].key \in Key /\ phone[p].key.epoch \in Nat
  BY <1>3 DEF Key
<1>5. m \in PhoneEnvelope /\ m \in PhoneFrame
  BY <1>4 DEF PhoneEnvelope, PhoneFrame
<1>6. d \in Device /\ d.step = "ready"
  BY <1>3, <1>4 DEF Device
<1>7. ToBridge(m) /\ aired' = aired \cup {m} /\ phone' = [phone EXCEPT ![p] = d]
        /\ UNCHANGED <<connected, shared, lastApplied>>
  BY DEF SendEnvelope
<1> HIDE DEF m, d
<1>8. toBridge' \in Seq(PhoneFrame)
  BY <1>5, <1>7, ToBridgeTypes
<1> QED
  BY <1>2, <1>5, <1>6, <1>7, <1>8

LEMMA RecentStep ==
  ASSUME RecentInv, [Next]_vars
  PROVE  RecentInv'
<1>0. BridgeSide /\ PhoneSide
  BY Sides
<1> SUFFICES BridgeSide' /\ PhoneSide'
  BY Sides DEF RecentInv, TypeOK, SecretInv, BridgeSide, InboxOK, PhoneSide
<1>1. CASE ReceiveFrame /\ UNCHANGED phoneVars
  <2>1. /\ toBridge # <<>> /\ HandleIncoming(Head(toBridge)) /\ toBridge' = Tail(toBridge)
        /\ UNCHANGED connected
    BY <1>1 DEF ReceiveFrame
  <2>2. Head(toBridge) \in PhoneFrame /\ toBridge' \in Seq(PhoneFrame)
    BY <1>0, <2>1, HeadTailProperties DEF PhoneSide
  <2>3. BridgeSide'
    BY <1>0, <2>1, <2>2, FrameTypes
  <2> QED
    BY <1>0, <1>1, <2>1, <2>2, <2>3 DEF PhoneSide, phoneVars
<1>2. ASSUME NEW size \in Sizes, QueueOutbound(size), UNCHANGED phoneVars
      PROVE  BridgeSide' /\ PhoneSide'
  <2>1. UNCHANGED <<connected, toBridge>>
    BY <1>2 DEF QueueOutbound
  <2> QED
    BY <1>0, <1>2, <2>1, QueueTypes DEF PhoneSide, phoneVars
<1>3. CASE ExpirePairing /\ UNCHANGED phoneVars
  BY <1>0, <1>3 DEF ExpirePairing, relayVars, phoneVars, BridgeSide, PhoneSide,
                    TransportTypeOK, InboxOK, BufferIsRecent
<1>4. ASSUME NEW p \in Phones, Ignore(p)
      PROVE  BridgeSide' /\ PhoneSide'
  <2>1. InboxOK' /\ nonces' \in Nat
    BY <1>0, <1>4, TakeFrameTypes DEF Ignore, BridgeSide, TransportTypeOK
  <2>2. BridgeSide'
    BY <1>0, <1>4, <2>1, PhoneStepTypes DEF Ignore
  <2> QED
    BY <1>0, <1>4, <2>2 DEF Ignore, phoneVars, PhoneSide
<1>5. ASSUME NEW m \in aired, Repeat(m)
      PROVE  BridgeSide' /\ PhoneSide'
  <2>1. InboxOK' /\ nonces' \in Nat
    BY <1>0, <1>5 DEF Repeat, BridgeSide, TransportTypeOK, InboxOK
  <2>2. BridgeSide'
    BY <1>0, <1>5, <2>1, PhoneStepTypes DEF Repeat
  <2>3. toBridge' \in Seq(PhoneFrame)
    BY <1>0, <1>5, ToBridgeTypes DEF Repeat, PhoneSide, PhoneFrame
  <2> QED
    BY <1>0, <1>5, <2>2, <2>3 DEF Repeat, phoneVars, PhoneSide
<1>6. CASE UNCHANGED vars
  BY <1>0, <1>6 DEF vars, relayVars, transportVars, phoneVars, BridgeSide, PhoneSide,
                    TransportTypeOK, InboxOK, BufferIsRecent
<1>7. ASSUME NEW p \in Phones,
             \/ \E mode \in Modes : Connect(p, mode)
             \/ Disconnect(p)
             \/ Authenticate(p) \/ Resume(p) \/ Apply(p) \/ Ignore(p)
             \/ SendEnvelope(p)
      PROVE  BridgeSide' /\ PhoneSide'
  BY <1>0, <1>4, <1>7, ConnectTypes, DisconnectTypes, AuthenticateTypes, ResumeStepTypes,
     ApplyTypes, SendEnvelopeTypes
<1> QED
  BY <1>1, <1>2, <1>3, <1>5, <1>6, <1>7 DEF Next, Bridge

LEMMA RecentInit == Init => RecentInv
<1> SUFFICES ASSUME Init PROVE RecentInv
  OBVIOUS
<1>1. <<>> \in Seq(PhoneFrame) /\ <<>> \in Seq(BridgeFrame) /\ <<>> \in Seq(Entry)
        /\ <<>> \in Seq([key : Key, counter : Nat]) /\ Len(<<>>) = 0 /\ DOMAIN <<>> = {}
  BY EmptySeq
<1>2. BridgeSide
  BY <1>1, EmptyFits DEF Init, EmptySession, NewTransport, BridgeSide, TransportTypeOK, InboxOK,
                         BufferIsRecent, SharedSecrets
<1>3. Away \in Device /\ Away.step = "away"
  BY DEF Away, Device
<1>4. PhoneSide
  BY <1>1, <1>3 DEF Init, EmptySession, NewTransport, PhoneSide, SharedSecrets
<1> QED
  BY <1>2, <1>4, Sides

-----------------------------------------------------------------------------
(***************************************************************************)
(* What is on its way to a phone that is alone in the session.             *)
(***************************************************************************)

(* One phone is in the session, or none: with two the properties of the    *)
(* replay fail, as BridgeChannelProperties says.                           *)
Alone == \A p, q \in Phones : p = q

(* A handshake of epoch e is behind everything of the sessions before it.  *)
Late(p, e) ==
  /\ \A k \in DOMAIN toBridge : toBridge[k].kind = "resumeState" => toBridge[k].epoch < e
  /\ session # None /\ session.resumed => session.epoch < e
  /\ \A k \in DOMAIN inbox[p] :
       inbox[p][k].kind = "encryptedEnvelope" => inbox[p][k].key.epoch < e

LateInv ==
  \A p \in Phones :
    /\ phone[p].step = "hello" =>
         \A k \in DOMAIN inbox[p] :
           inbox[p][k].kind = "serverHello" => Late(p, inbox[p][k].epoch)
    /\ phone[p].step = "auth" => Late(p, phone[p].key.epoch)

(* Frames are of earlier epochs, and carry numbers that have been given.   *)
PastInv ==
  /\ \A k \in DOMAIN toBridge :
       toBridge[k].kind = "resumeState" => toBridge[k].epoch < nextEpoch
  /\ \A p \in Phones : \A k \in DOMAIN inbox[p] :
       /\ inbox[p][k].kind = "secureReady" => inbox[p][k].epoch < nextEpoch
       /\ inbox[p][k].kind = "encryptedEnvelope" =>
            inbox[p][k].key.epoch < nextEpoch /\ inbox[p][k].seq < nextSeq

OnlineInv == \A p \in Phones : phone[p].step # "away" => p \in connected

(* A phone has applied what it reports, if not more. *)
ReportInv ==
  \A k \in DOMAIN toBridge : toBridge[k].kind = "resumeState" =>
    \A p \in Phones : toBridge[k].last <= lastApplied[p]

(* Before a message on its way to the phone come those that precede it. *)
InTurn ==
  \A p \in Phones : \A k \in DOMAIN inbox[p] :
    OwnEnvelope(p, inbox[p][k]) =>
      \A n \in (lastApplied[p] + 1)..(inbox[p][k].seq - 1) :
        Buffered(n) => \E j \in 1..(k - 1) : OwnEnvelope(p, inbox[p][j]) /\ inbox[p][j].seq = n

LinkInv == PastInv /\ OnlineInv /\ LateInv /\ ReportInv /\ InTurn /\ NothingMissing

(* What the two sides are known to keep. *)
SideFacts == RecentInv /\ TransportInv

LEMMA InboxGrows ==
  ASSUME InboxOK, NEW frames \in Seq(BridgeFrame), Broadcast(frames),
         NEW p \in Phones, NEW k \in DOMAIN inbox'[p]
  PROVE  \/ k \in DOMAIN inbox[p] /\ inbox'[p][k] = inbox[p][k]
         \/ /\ p \in connected
            /\ \E j \in 1..Len(frames) :
                 k = Len(inbox[p]) + j /\ inbox'[p][k] = frames[j]
<1>1. inbox[p] \in Seq(BridgeFrame) /\ inbox'[p] \in Seq(BridgeFrame)
  BY FramesSent DEF InboxOK
<1>2. DOMAIN inbox[p] = 1..Len(inbox[p]) /\ DOMAIN inbox'[p] = 1..Len(inbox'[p])
  BY <1>1, LenProperties
<1>3. CASE p \in connected
  <2>1. /\ Len(inbox[p]) \in Nat /\ Len(frames) \in Nat
        /\ Len(inbox'[p]) = Len(inbox[p]) + Len(frames)
        /\ \A i \in 1..Len(inbox[p]) : inbox'[p][i] = inbox[p][i]
        /\ \A i \in 1..Len(frames) : inbox'[p][Len(inbox[p]) + i] = frames[i]
    BY <1>3, FramesSent
  <2>2. k \in 1..(Len(inbox[p]) + Len(frames))
    BY <1>2, <2>1
  <2>3. CASE k \in 1..Len(inbox[p])
    BY <1>2, <2>1, <2>3
  <2>4. CASE k \notin 1..Len(inbox[p])
    <3> DEFINE j == k - Len(inbox[p])
    <3>1. j \in 1..Len(frames) /\ k = Len(inbox[p]) + j
      BY <2>1, <2>2, <2>4
    <3> QED
      BY <1>3, <2>1, <3>1
  <2> QED
    BY <2>3, <2>4
<1>4. CASE p \notin connected
  BY <1>4, FramesSent
<1> QED
  BY <1>3, <1>4

LEMMA InboxKeeps ==
  ASSUME InboxOK, NEW frames \in Seq(BridgeFrame), Broadcast(frames),
         NEW p \in Phones, NEW k \in DOMAIN inbox[p]
  PROVE  k \in DOMAIN inbox'[p] /\ inbox'[p][k] = inbox[p][k] /\ k \in 1..Len(inbox[p])
<1>1. inbox[p] \in Seq(BridgeFrame) /\ inbox'[p] \in Seq(BridgeFrame)
  BY FramesSent DEF InboxOK
<1>2. DOMAIN inbox[p] = 1..Len(inbox[p]) /\ DOMAIN inbox'[p] = 1..Len(inbox'[p])
  BY <1>1, LenProperties
<1>3. CASE p \in connected
  <2>1. /\ Len(inbox[p]) \in Nat /\ Len(frames) \in Nat
        /\ Len(inbox'[p]) = Len(inbox[p]) + Len(frames)
        /\ \A i \in 1..Len(inbox[p]) : inbox'[p][i] = inbox[p][i]
    BY <1>3, FramesSent
  <2> QED
    BY <1>2, <2>1
<1>4. CASE p \notin connected
  BY <1>2, <1>4, FramesSent
<1> QED
  BY <1>3, <1>4

(* The frames sent are there, behind the others. *)
LEMMA InboxGets ==
  ASSUME InboxOK, NEW frames \in Seq(BridgeFrame), Broadcast(frames),
         NEW p \in Phones, p \in connected, NEW j \in 1..Len(frames)
  PROVE  /\ Len(inbox[p]) + j \in DOMAIN inbox'[p]
         /\ inbox'[p][Len(inbox[p]) + j] = frames[j]
         /\ Len(inbox[p]) \in Nat
<1>1. inbox'[p] \in Seq(BridgeFrame)
  BY FramesSent DEF InboxOK
<1>2. DOMAIN inbox'[p] = 1..Len(inbox'[p])
  BY <1>1, LenProperties
<1>3. /\ Len(inbox[p]) \in Nat /\ Len(frames) \in Nat
      /\ Len(inbox'[p]) = Len(inbox[p]) + Len(frames)
      /\ \A i \in 1..Len(frames) : inbox'[p][Len(inbox[p]) + i] = frames[i]
  BY FramesSent
<1> QED
  BY <1>2, <1>3

LEMMA InboxShrinks ==
  ASSUME InboxOK, NEW p \in Phones, inbox[p] # <<>>, TakeFrame(p)
  PROVE  /\ 1 \in DOMAIN inbox[p] /\ inbox[p][1] = Head(inbox[p])
         /\ \A k \in DOMAIN inbox'[p] :
              k \in Nat \ {0} /\ k + 1 \in DOMAIN inbox[p] /\ inbox'[p][k] = inbox[p][k + 1]
         /\ \A k \in DOMAIN inbox[p] :
              k # 1 => k - 1 \in DOMAIN inbox'[p] /\ inbox'[p][k - 1] = inbox[p][k]
<1>1. inbox[p] \in Seq(BridgeFrame) /\ inbox'[p] = Tail(inbox[p])
  BY DEF InboxOK, TakeFrame
<1>2. /\ DOMAIN Tail(inbox[p]) = 1..(Len(inbox[p]) - 1)
      /\ Len(inbox[p]) \in Nat \ {0}
      /\ DOMAIN inbox[p] = 1..Len(inbox[p])
      /\ Head(inbox[p]) = inbox[p][1]
      /\ \A k \in 1..(Len(inbox[p]) - 1) : Tail(inbox[p])[k] = inbox[p][k + 1]
  BY <1>1, TailOfSequence DEF Sequence
<1>3. ASSUME NEW k \in 1..Len(inbox[p]), k # 1
      PROVE  k - 1 \in 1..(Len(inbox[p]) - 1) /\ Tail(inbox[p])[k - 1] = inbox[p][k]
  <2>1. k - 1 \in 1..(Len(inbox[p]) - 1) /\ (k - 1) + 1 = k
    BY <1>2, <1>3
  <2> QED
    BY <1>2, <2>1
<1> QED
  BY <1>1, <1>2, <1>3

(* The frames on the wire are among those that were, or are m. *)
WireAdds(m) ==
  \A k \in DOMAIN toBridge' :
    \/ \E j \in DOMAIN toBridge : toBridge'[k] = toBridge[j]
    \/ toBridge'[k] = m

WireLoses == \A k \in DOMAIN toBridge' : \E j \in DOMAIN toBridge : toBridge'[k] = toBridge[j]

LEMMA WireGrows ==
  ASSUME toBridge \in Seq(PhoneFrame), NEW m, ToBridge(m)
  PROVE  WireAdds(m)
<1>1. toBridge' = Append(toBridge, m) /\ Sequence(toBridge)
  BY DEF ToBridge, Sequence
<1>2. /\ DOMAIN toBridge' = 1..(Len(toBridge) + 1)
      /\ DOMAIN toBridge = 1..Len(toBridge) /\ Len(toBridge) \in Nat
      /\ \A k \in 1..Len(toBridge) : toBridge'[k] = toBridge[k]
      /\ toBridge'[Len(toBridge) + 1] = m
  BY <1>1, AppendToSequence
<1> QED
  BY <1>2 DEF WireAdds

LEMMA WireShrinks ==
  ASSUME toBridge \in Seq(PhoneFrame), toBridge # <<>>, toBridge' = Tail(toBridge)
  PROVE  WireLoses /\ 1 \in DOMAIN toBridge /\ Head(toBridge) = toBridge[1]
<1>1. Sequence(toBridge)
  BY DEF Sequence
<1>2. /\ DOMAIN toBridge' = 1..(Len(toBridge) - 1)
      /\ Len(toBridge) \in Nat \ {0}
      /\ DOMAIN toBridge = 1..Len(toBridge)
      /\ Head(toBridge) = toBridge[1]
      /\ \A k \in 1..(Len(toBridge) - 1) : toBridge'[k] = toBridge[k + 1]
  BY <1>1, TailOfSequence
<1> QED
  BY <1>2 DEF WireLoses

-----------------------------------------------------------------------------
(***************************************************************************)
(* The steps of the bridge keep LinkInv.                                   *)
(***************************************************************************)

(* What a step of the bridge leaves alone; it may have read a frame. *)
BridgeOnly == WireLoses /\ UNCHANGED <<phone, lastApplied, connected>>

LEMMA WireFacts ==
  ASSUME BridgeOnly, LinkInv, nextEpoch \in Nat, nextEpoch' \in Nat, nextEpoch' >= nextEpoch,
         toBridge \in Seq(PhoneFrame)
  PROVE  /\ ReportInv' /\ OnlineInv'
         /\ \A k \in DOMAIN toBridge' :
              toBridge'[k].kind = "resumeState" => toBridge'[k].epoch < nextEpoch'
<1>1. ReportInv' /\ OnlineInv'
  BY DEF BridgeOnly, WireLoses, LinkInv, ReportInv, OnlineInv
<1>2. \A k \in DOMAIN toBridge : toBridge[k].kind = "resumeState" =>
        toBridge[k].epoch \in Nat /\ toBridge[k].epoch < nextEpoch
  <2>1. \A k \in DOMAIN toBridge : toBridge[k] \in PhoneFrame
    BY LenProperties
  <2> QED
    BY <2>1, PhoneFrameKinds DEF LinkInv, PastInv, ResumeMsg
<1>3. \A k \in DOMAIN toBridge' :
        toBridge'[k].kind = "resumeState" => toBridge'[k].epoch < nextEpoch'
  BY <1>2 DEF BridgeOnly, WireLoses
<1> QED
  BY <1>1, <1>3

(* Nothing sent, nothing queued: a frame refused, a message heard, time. *)
LEMMA QuietLink ==
  ASSUME SideFacts, LinkInv, BridgeOnly, UNCHANGED <<inbox, nextEpoch, nextSeq, buffer>>,
         session' # None =>
           /\ session # None /\ session'.epoch = session.epoch
           /\ session'.key = session.key /\ session'.resumed = session.resumed
  PROVE  LinkInv'
<1> USE DEF BridgeOnly
<1>1. nextEpoch \in Nat /\ toBridge \in Seq(PhoneFrame)
  BY DEF SideFacts, RecentInv, TypeOK, TransportTypeOK
<1>2. ReportInv' /\ OnlineInv'
        /\ \A k \in DOMAIN toBridge' :
             toBridge'[k].kind = "resumeState" => toBridge'[k].epoch < nextEpoch'
  BY <1>1, WireFacts
<1>3. PastInv'
  BY <1>2 DEF LinkInv, PastInv
<1>4. \A p \in Phones : \A e : Late(p, e) => Late(p, e)'
  BY DEF Late, WireLoses
<1>5. LateInv'
  BY <1>4 DEF LinkInv, LateInv
<1>6. InTurn'
  BY DEF LinkInv, InTurn, OwnEnvelope, Buffered
<1>7. NothingMissing'
  <2>1. \A p \in Phones : OnSession(p)' /\ session'.resumed => OnSession(p) /\ session.resumed
    BY DEF OnSession
  <2>2. \A p \in Phones : \A n : InFlight(p, n) => InFlight(p, n)'
    BY DEF InFlight, OwnEnvelope
  <2> QED
    BY <2>1, <2>2 DEF LinkInv, NothingMissing
<1> QED
  BY <1>2, <1>3, <1>5, <1>6, <1>7 DEF LinkInv

(* The bridge sends a frame of the handshake. *)
LEMMA ControlFrame ==
  ASSUME InboxOK, InTurn, NEW f \in BridgeFrame, f.kind # "encryptedEnvelope",
         Broadcast(<<f>>), UNCHANGED <<phone, lastApplied, buffer>>
  PROVE  /\ \A p \in Phones : \A k \in DOMAIN inbox'[p] :
              \/ k \in DOMAIN inbox[p] /\ inbox'[p][k] = inbox[p][k]
              \/ inbox'[p][k] = f
         /\ \A p \in Phones : \A n : InFlight(p, n) => InFlight(p, n)'
         /\ InTurn'
<1>1. <<f>> \in Seq(BridgeFrame) /\ Len(<<f>>) = 1 /\ <<f>>[1] = f
  BY OneFrame
<1>2. ASSUME NEW p \in Phones, NEW k \in DOMAIN inbox'[p]
      PROVE  \/ k \in DOMAIN inbox[p] /\ inbox'[p][k] = inbox[p][k]
             \/ inbox'[p][k] = f
  <2>1. \A j \in 1..Len(<<f>>) : <<f>>[j] = f
    BY <1>1
  <2> QED
    BY <1>1, <2>1, InboxGrows
<1>3. \A p \in Phones : \A k \in DOMAIN inbox[p] :
        k \in DOMAIN inbox'[p] /\ inbox'[p][k] = inbox[p][k]
  BY <1>1, InboxKeeps
<1>4. InTurn'
  <2>1. \A p \in Phones : \A k \in DOMAIN inbox'[p] :
          OwnEnvelope(p, inbox[p][k])' =>
            k \in DOMAIN inbox[p] /\ inbox'[p][k] = inbox[p][k] /\ OwnEnvelope(p, inbox[p][k])
    BY <1>2 DEF OwnEnvelope
  <2> SUFFICES ASSUME NEW p \in Phones, NEW k \in DOMAIN inbox'[p], OwnEnvelope(p, inbox[p][k])',
                      NEW n \in (lastApplied[p] + 1)..(inbox'[p][k].seq - 1), Buffered(n)'
               PROVE  \E j \in 1..(k - 1) :
                        OwnEnvelope(p, inbox[p][j])' /\ inbox'[p][j].seq = n
    BY DEF InTurn
  <2>2. k \in DOMAIN inbox[p] /\ inbox'[p][k] = inbox[p][k] /\ OwnEnvelope(p, inbox[p][k])
    BY <2>1
  <2>3. Buffered(n)
    BY DEF Buffered
  <2>4. PICK j \in 1..(k - 1) : OwnEnvelope(p, inbox[p][j]) /\ inbox[p][j].seq = n
    BY <2>2, <2>3 DEF InTurn
  <2>5. j \in DOMAIN inbox[p]
    BY <2>2, LenProperties DEF InboxOK
  <2>6. inbox'[p][j] = inbox[p][j]
    BY <1>3, <2>5
  <2> QED
    BY <2>4, <2>6 DEF OwnEnvelope
<1>5. \A p \in Phones : \A n : InFlight(p, n) => InFlight(p, n)'
  BY <1>3 DEF InFlight, OwnEnvelope
<1> QED
  BY <1>2, <1>4, <1>5

LEMMA HelloLink ==
  ASSUME SideFacts, LinkInv, BridgeOnly, NEW m \in PhoneFrame, HandleClientHello(m)
  PROVE  LinkInv'
<1> USE DEF BridgeOnly
<1> DEFINE f == [kind |-> "serverHello", phone |-> m.phone, cnonce |-> m.cnonce,
                 snonce |-> nonces', epoch |-> nextEpoch]
<1>1. nextEpoch \in Nat /\ toBridge \in Seq(PhoneFrame) /\ InboxOK /\ nonces + 1 \in Nat
  BY DEF SideFacts, RecentInv, TypeOK, TransportTypeOK, InboxOK
<1>2. /\ UNCHANGED <<session, nextEpoch, nextSeq, buffer>>
      /\ Broadcast(<<f>>) /\ nonces' = nonces + 1
  BY DEF HandleClientHello
<1>3. f \in BridgeFrame /\ f.kind = "serverHello" /\ f.epoch = nextEpoch
  <2>1. m.phone \in Phones /\ m.cnonce \in Nat
    BY PhoneFrameKinds DEF HandleClientHello, HelloMsg
  <2> QED
    BY <1>1, <1>2, <2>1 DEF BridgeFrame, ServerHello
<1> HIDE DEF f
<1>5. /\ \A p \in Phones : \A k \in DOMAIN inbox'[p] :
           \/ k \in DOMAIN inbox[p] /\ inbox'[p][k] = inbox[p][k]
           \/ inbox'[p][k] = f
      /\ \A p \in Phones : \A n : InFlight(p, n) => InFlight(p, n)'
      /\ InTurn'
  BY <1>1, <1>2, <1>3, ControlFrame DEF LinkInv
<1>7. ReportInv' /\ OnlineInv'
        /\ \A k \in DOMAIN toBridge' :
             toBridge'[k].kind = "resumeState" => toBridge'[k].epoch < nextEpoch'
  BY <1>1, <1>2, WireFacts
<1>8. PastInv'
  BY <1>2, <1>3, <1>5, <1>7 DEF LinkInv, PastInv
<1>9. \A p \in Phones : \A e : Late(p, e) => Late(p, e)'
  BY <1>2, <1>3, <1>5 DEF Late, WireLoses
<1>10. \A p \in Phones : \A e : e = nextEpoch => Late(p, e)'
  <2>1. session # None => session.epoch < nextEpoch
    BY DEF SideFacts, TransportInv, SessionInv
  <2>2. \A p \in Phones : \A k \in DOMAIN inbox'[p] :
          inbox'[p][k].kind = "encryptedEnvelope" => inbox'[p][k].key.epoch < nextEpoch
    BY <1>2, <1>8 DEF PastInv
  <2>3. \A k \in DOMAIN toBridge' :
          toBridge'[k].kind = "resumeState" => toBridge'[k].epoch < nextEpoch
    BY <1>2, <1>7
  <2> QED
    BY <1>2, <2>1, <2>2, <2>3 DEF Late
<1>11. LateInv'
  <2>1. ASSUME NEW p \in Phones, phone[p].step = "hello", NEW k \in DOMAIN inbox'[p],
               inbox'[p][k].kind = "serverHello", NEW e, e = inbox'[p][k].epoch
        PROVE  Late(p, e)'
    <3>1. CASE k \in DOMAIN inbox[p] /\ inbox'[p][k] = inbox[p][k]
      BY <1>9, <2>1, <3>1 DEF LinkInv, LateInv
    <3>2. CASE inbox'[p][k] = f
      <4>1. e = nextEpoch
        BY <1>3, <2>1, <3>2
      <4> QED
        BY <1>10, <4>1
    <3> QED
      BY <1>5, <3>1, <3>2
  <2>2. ASSUME NEW p \in Phones, phone[p].step = "auth", NEW e, e = phone[p].key.epoch
        PROVE  Late(p, e)'
    BY <1>9, <2>2 DEF LinkInv, LateInv
  <2> QED
    BY <2>1, <2>2 DEF LateInv, Late
<1>12. NothingMissing'
  <2>1. \A p \in Phones : OnSession(p)' /\ session'.resumed => OnSession(p) /\ session.resumed
    BY <1>2 DEF OnSession
  <2> QED
    BY <1>2, <1>5, <2>1 DEF LinkInv, NothingMissing
<1> QED
  BY <1>5, <1>7, <1>8, <1>11, <1>12 DEF LinkInv

LEMMA AuthLink ==
  ASSUME SideFacts, LinkInv, BridgeOnly, NEW m \in PhoneFrame, HandleClientAuth(m)
  PROVE  LinkInv'
<1> USE DEF BridgeOnly
<1> DEFINE f == [kind |-> "secureReady", epoch |-> handshake.epoch]
<1>1. nextEpoch \in Nat /\ toBridge \in Seq(PhoneFrame) /\ InboxOK
  BY DEF SideFacts, RecentInv, TypeOK, TransportTypeOK, InboxOK
<1>2. /\ UNCHANGED <<nextSeq, buffer>> /\ nextEpoch' = nextEpoch + 1
      /\ Broadcast(<<f>>) /\ ~session'.resumed
  BY DEF HandleClientAuth, NewSession
<1>3. f \in BridgeFrame /\ f.kind = "secureReady" /\ f.epoch = nextEpoch
  <2>1. handshake.epoch = nextEpoch
    BY DEF HandleClientAuth, AcceptsAuth, SideFacts, TransportInv, HandshakeInv
  <2> QED
    BY <1>1, <2>1 DEF BridgeFrame, SecureReady
<1> HIDE DEF f
<1>5. /\ \A p \in Phones : \A k \in DOMAIN inbox'[p] :
           \/ k \in DOMAIN inbox[p] /\ inbox'[p][k] = inbox[p][k]
           \/ inbox'[p][k] = f
      /\ \A p \in Phones : \A n : InFlight(p, n) => InFlight(p, n)'
      /\ InTurn'
  BY <1>1, <1>2, <1>3, ControlFrame DEF LinkInv
<1>7. ReportInv' /\ OnlineInv'
        /\ \A k \in DOMAIN toBridge' :
             toBridge'[k].kind = "resumeState" => toBridge'[k].epoch < nextEpoch'
  BY <1>1, <1>2, WireFacts
<1>8. PastInv'
  <2>1. \A p \in Phones : \A k \in DOMAIN inbox[p] :
          /\ inbox[p][k].kind = "secureReady" => inbox[p][k].epoch \in Nat
          /\ inbox[p][k].kind = "encryptedEnvelope" => inbox[p][k].key.epoch \in Nat
    <3> SUFFICES ASSUME NEW p \in Phones, NEW k \in DOMAIN inbox[p]
                 PROVE  /\ inbox[p][k].kind = "secureReady" => inbox[p][k].epoch \in Nat
                        /\ inbox[p][k].kind = "encryptedEnvelope" => inbox[p][k].key.epoch \in Nat
      OBVIOUS
    <3>1. inbox[p][k] \in BridgeFrame
      BY <1>1, LenProperties DEF InboxOK
    <3> QED
      BY <3>1, BridgeFrameKinds DEF SecureReady, BridgeEnvelope, Key
  <2>2. \A p \in Phones : \A k \in DOMAIN inbox'[p] :
          /\ inbox'[p][k].kind = "secureReady" => inbox'[p][k].epoch < nextEpoch'
          /\ inbox'[p][k].kind = "encryptedEnvelope" =>
               inbox'[p][k].key.epoch < nextEpoch' /\ inbox'[p][k].seq < nextSeq'
    <3> SUFFICES ASSUME NEW p \in Phones, NEW k \in DOMAIN inbox'[p]
                 PROVE  /\ inbox'[p][k].kind = "secureReady" => inbox'[p][k].epoch < nextEpoch'
                        /\ inbox'[p][k].kind = "encryptedEnvelope" =>
                             /\ inbox'[p][k].key.epoch < nextEpoch'
                             /\ inbox'[p][k].seq < nextSeq'
      OBVIOUS
    <3>1. CASE k \in DOMAIN inbox[p] /\ inbox'[p][k] = inbox[p][k]
      BY <1>1, <1>2, <2>1, <3>1 DEF LinkInv, PastInv
    <3>2. CASE inbox'[p][k] = f
      BY <1>1, <1>2, <1>3, <3>2
    <3> QED
      BY <1>5, <3>1, <3>2
  <2> QED
    BY <1>7, <2>2 DEF PastInv
<1>9. \A p \in Phones : \A e : Late(p, e) => Late(p, e)'
  BY <1>2, <1>3, <1>5 DEF Late, WireLoses
<1>10. LateInv'
  BY <1>3, <1>5, <1>9 DEF LinkInv, LateInv
<1>11. NothingMissing'
  BY <1>2 DEF NothingMissing
<1> QED
  BY <1>5, <1>7, <1>8, <1>10, <1>11 DEF LinkInv

(* The entries sent under the session: they are of its epoch, which no     *)
(* handshake under way has, and have numbers that were given.              *)
LEMMA EnvelopesLink ==
  ASSUME SideFacts, LinkInv, BridgeOnly, NEW s \in Session, NEW b \in Seq(Entry),
         SendEntries(s, b), UNCHANGED nextEpoch, nextSeq' \in Nat, nextSeq' >= nextSeq,
         session # None, s.key = session.key, s.epoch = session.epoch,
         \A k \in DOMAIN b : b[k].seq < nextSeq',
         \A p \in Phones : \A e : Late(p, e) => session.epoch < e
  PROVE  /\ PastInv' /\ OnlineInv' /\ LateInv' /\ ReportInv'
         /\ \A p \in Phones : OnSession(p)' => OnSession(p)
         /\ \A p \in Phones : \A k \in DOMAIN inbox[p] :
              k \in DOMAIN inbox'[p] /\ inbox'[p][k] = inbox[p][k]
         /\ \A p \in Phones : OnSession(p) =>
              \A k \in 1..Len(b) : \A i : i = Len(inbox[p]) + k =>
                /\ i \in DOMAIN inbox'[p] /\ Len(inbox[p]) \in Nat
                /\ OwnEnvelope(p, inbox[p][i])' /\ inbox'[p][i].seq = b[k].seq
         /\ \A p \in Phones : \A k \in DOMAIN inbox'[p] : OwnEnvelope(p, inbox[p][k])' =>
              \/ k \in DOMAIN inbox[p] /\ inbox'[p][k] = inbox[p][k]
              \/ /\ OnSession(p)
                 /\ \E j \in 1..Len(b) :
                      k = Len(inbox[p]) + j /\ inbox'[p][k].seq = b[j].seq
<1> USE DEF BridgeOnly
<1> DEFINE frames == Envelopes(s, b)
<1>1. /\ nextEpoch \in Nat /\ nextSeq \in Nat /\ toBridge \in Seq(PhoneFrame) /\ InboxOK
      /\ phone \in [Phones -> Device]
  BY DEF SideFacts, RecentInv, TypeOK, TransportTypeOK, InboxOK
<1>2. session' = [s EXCEPT !.out = @ + Len(b)] /\ Broadcast(frames)
  BY DEF SendEntries
<1>3. session'.key = session.key /\ session'.epoch = session.epoch
  BY <1>2 DEF Session
<1>4. session.key.epoch = session.epoch /\ session.epoch < nextEpoch
  BY DEF SideFacts, TransportInv, SessionInv
<1>5. /\ frames \in Seq(BridgeFrame) /\ Len(frames) = Len(b)
      /\ \A k \in 1..Len(b) :
           /\ frames[k].kind = "encryptedEnvelope" /\ frames[k].key = session.key
           /\ frames[k].seq = b[k].seq
  BY EnvelopesAreFrames
<1> HIDE DEF frames
<1>6. \A k \in 1..Len(b) : b[k].seq < nextSeq'
  BY LenProperties
<1>7. ASSUME NEW p \in Phones, NEW k \in DOMAIN inbox'[p]
      PROVE  \/ k \in DOMAIN inbox[p] /\ inbox'[p][k] = inbox[p][k]
             \/ \E j \in 1..Len(b) : k = Len(inbox[p]) + j /\ inbox'[p][k] = frames[j]
  BY <1>1, <1>2, <1>5, InboxGrows
<1>8. ASSUME NEW p \in Phones, NEW k \in DOMAIN inbox'[p]
      PROVE  \/ k \in DOMAIN inbox[p] /\ inbox'[p][k] = inbox[p][k]
             \/ /\ inbox'[p][k].kind = "encryptedEnvelope"
                /\ inbox'[p][k].key = session.key
                /\ inbox'[p][k].seq < nextSeq'
  BY <1>5, <1>6, <1>7
<1>9. ReportInv' /\ OnlineInv'
        /\ \A k \in DOMAIN toBridge' :
             toBridge'[k].kind = "resumeState" => toBridge'[k].epoch < nextEpoch'
  BY <1>1, WireFacts
<1>10. PastInv'
  <2>1. ASSUME NEW p \in Phones, NEW k \in DOMAIN inbox'[p]
        PROVE  /\ inbox'[p][k].kind = "secureReady" => inbox'[p][k].epoch < nextEpoch'
               /\ inbox'[p][k].kind = "encryptedEnvelope" =>
                    inbox'[p][k].key.epoch < nextEpoch' /\ inbox'[p][k].seq < nextSeq'
    <3>1. CASE k \in DOMAIN inbox[p] /\ inbox'[p][k] = inbox[p][k]
      <4>1. inbox[p][k] \in BridgeFrame
        BY <1>1, <3>1, LenProperties DEF InboxOK
      <4>2. inbox[p][k].kind = "encryptedEnvelope" => inbox[p][k].seq \in Nat
        BY <4>1, BridgeFrameKinds DEF BridgeEnvelope
      <4> QED
        BY <1>1, <3>1, <4>2 DEF LinkInv, PastInv
    <3>2. CASE inbox'[p][k].kind = "encryptedEnvelope" /\ inbox'[p][k].key = session.key
                 /\ inbox'[p][k].seq < nextSeq'
      BY <1>4, <3>2
    <3> QED
      BY <1>8, <2>1, <3>1, <3>2
  <2> QED
    BY <1>9, <2>1 DEF PastInv
<1>11. \A p \in Phones : \A e : Late(p, e) => Late(p, e)'
  <2> SUFFICES ASSUME NEW p \in Phones, NEW e, Late(p, e) PROVE Late(p, e)'
    OBVIOUS
  <2>1. session.epoch < e
    OBVIOUS
  <2>2. \A k \in DOMAIN inbox'[p] :
          inbox'[p][k].kind = "encryptedEnvelope" => inbox'[p][k].key.epoch < e
    BY <1>4, <1>8, <2>1 DEF Late
  <2>3. \A k \in DOMAIN toBridge' :
          toBridge'[k].kind = "resumeState" => toBridge'[k].epoch < e
    BY DEF Late, WireLoses
  <2> QED
    BY <1>3, <2>1, <2>2, <2>3 DEF Late
<1>12. LateInv'
  <2>1. ASSUME NEW p \in Phones, phone[p].step = "hello", NEW k \in DOMAIN inbox'[p],
               inbox'[p][k].kind = "serverHello", NEW e, e = inbox'[p][k].epoch
        PROVE  Late(p, e)'
    <3>1. k \in DOMAIN inbox[p] /\ inbox'[p][k] = inbox[p][k]
      BY <1>8, <2>1
    <3> QED
      BY <1>11, <2>1, <3>1 DEF LinkInv, LateInv
  <2>2. ASSUME NEW p \in Phones, phone[p].step = "auth", NEW e, e = phone[p].key.epoch
        PROVE  Late(p, e)'
    BY <1>11, <2>2 DEF LinkInv, LateInv
  <2> QED
    BY <2>1, <2>2 DEF LateInv, Late
<1>13. \A p \in Phones : OnSession(p)' => OnSession(p)
  BY <1>3 DEF OnSession
<1>14. \A p \in Phones : \A k \in DOMAIN inbox[p] :
         k \in DOMAIN inbox'[p] /\ inbox'[p][k] = inbox[p][k]
  BY <1>1, <1>2, <1>5, InboxKeeps
<1>15. ASSUME NEW p \in Phones, OnSession(p), NEW k \in 1..Len(b), NEW i, i = Len(inbox[p]) + k
       PROVE  /\ i \in DOMAIN inbox'[p] /\ Len(inbox[p]) \in Nat
              /\ OwnEnvelope(p, inbox[p][i])' /\ inbox'[p][i].seq = b[k].seq
  <2>1. p \in connected /\ phone[p].step = "ready" /\ phone[p].key = session.key
    BY <1>15 DEF OnSession, LinkInv, OnlineInv
  <2>2. i \in DOMAIN inbox'[p] /\ Len(inbox[p]) \in Nat /\ inbox'[p][i] = frames[k]
    BY <1>1, <1>2, <1>5, <1>15, <2>1, InboxGets
  <2> QED
    BY <1>5, <2>1, <2>2 DEF OwnEnvelope
<1>16. ASSUME NEW p \in Phones, NEW k \in DOMAIN inbox'[p], OwnEnvelope(p, inbox[p][k])'
       PROVE  \/ k \in DOMAIN inbox[p] /\ inbox'[p][k] = inbox[p][k]
              \/ /\ OnSession(p)
                 /\ \E j \in 1..Len(b) :
                      k = Len(inbox[p]) + j /\ inbox'[p][k].seq = b[j].seq
  BY <1>5, <1>7, <1>16 DEF OwnEnvelope, OnSession
<1> QED
  BY <1>9, <1>10, <1>12, <1>13, <1>14, <1>15, <1>16

(* What was on its way stays there, in its place. *)
LEMMA StaysInTurn ==
  ASSUME InboxOK, InTurn, UNCHANGED <<phone, lastApplied>>,
         NEW p \in Phones, NEW k \in DOMAIN inbox[p], inbox'[p][k] = inbox[p][k],
         \A i \in DOMAIN inbox[p] : i \in DOMAIN inbox'[p] /\ inbox'[p][i] = inbox[p][i],
         OwnEnvelope(p, inbox[p][k])',
         NEW n \in (lastApplied[p] + 1)..(inbox[p][k].seq - 1), Buffered(n)
  PROVE  \E j \in 1..(k - 1) : OwnEnvelope(p, inbox[p][j])' /\ inbox'[p][j].seq = n
<1>1. OwnEnvelope(p, inbox[p][k])
  BY DEF OwnEnvelope
<1>2. PICK j \in 1..(k - 1) : OwnEnvelope(p, inbox[p][j]) /\ inbox[p][j].seq = n
  BY <1>1 DEF InTurn
<1>3. j \in DOMAIN inbox[p]
  BY LenProperties DEF InboxOK
<1> QED
  BY <1>2, <1>3 DEF OwnEnvelope

LEMMA StaysInFlight ==
  ASSUME UNCHANGED phone, NEW p \in Phones, NEW n, InFlight(p, n),
         \A k \in DOMAIN inbox[p] : k \in DOMAIN inbox'[p] /\ inbox'[p][k] = inbox[p][k]
  PROVE  InFlight(p, n)'
BY DEF InFlight, OwnEnvelope

LEMMA ResumeLink ==
  ASSUME SideFacts, LinkInv, BridgeOnly, NEW m \in PhoneFrame, HandleResumeState(m),
         1 \in DOMAIN toBridge, m = toBridge[1]
  PROVE  LinkInv'
<1> USE DEF BridgeOnly
<1> DEFINE s == [session EXCEPT !.resumed = TRUE]
           b == Missing(buffer, m.last)
<1>1. /\ m.kind = "resumeState" /\ session # None /\ m.epoch = session.epoch
      /\ SendEntries(s, b) /\ UNCHANGED <<nextEpoch, nextSeq, buffer>>
  BY DEF HandleResumeState, AcceptsResume
<1>2. /\ nextSeq \in Nat /\ buffer \in Seq(Entry) /\ InboxOK /\ session \in Session
      /\ lastApplied \in [Phones -> Nat]
  BY <1>1 DEF SideFacts, RecentInv, TypeOK, TransportTypeOK, InboxOK
<1>3. m.last \in Nat /\ \A p \in Phones : m.last <= lastApplied[p]
  BY <1>1, PhoneFrameKinds DEF ResumeMsg, LinkInv, ReportInv
<1>4. s \in Session /\ s.key = session.key /\ s.epoch = session.epoch /\ s.resumed
  BY <1>2 DEF Session
<1>5. \A k \in DOMAIN buffer : buffer[k].seq = nextSeq - Len(buffer) + k - 1
  BY DEF SideFacts, RecentInv, BufferIsRecent
<1>6. PICK skip \in 0..Len(buffer) :
        /\ \A k \in 1..skip : buffer[k].seq <= m.last
        /\ b \in Seq(Entry) /\ Len(b) = Len(buffer) - skip
        /\ \A n \in 1..(Len(buffer) - skip) : b[n] = buffer[n + skip]
  BY <1>2, <1>3, <1>5, MissingIsTheEnd
<1> HIDE DEF s, b
<1>7. Len(buffer) \in Nat /\ DOMAIN buffer = 1..Len(buffer)
        /\ \A k \in 1..Len(buffer) : buffer[k] \in Entry
  BY <1>2, LenProperties
<1>8. \A n \in 1..Len(b) : n + skip \in DOMAIN buffer /\ b[n] = buffer[n + skip]
  BY <1>6, <1>7
<1>9. \A k \in DOMAIN b : b[k].seq < nextSeq'
  <2>1. DOMAIN b = 1..Len(b)
    BY <1>6, LenProperties
  <2>2. \A k \in DOMAIN buffer : buffer[k].seq < nextSeq
    BY <1>2, <1>5, <1>7
  <2> QED
    BY <1>1, <1>8, <2>1, <2>2
<1>10. \A p \in Phones : \A e : Late(p, e) => session.epoch < e
  BY <1>1 DEF Late
<1>11. /\ PastInv' /\ OnlineInv' /\ LateInv' /\ ReportInv'
       /\ \A p \in Phones : OnSession(p)' => OnSession(p)
       /\ \A p \in Phones : \A k \in DOMAIN inbox[p] :
            k \in DOMAIN inbox'[p] /\ inbox'[p][k] = inbox[p][k]
       /\ \A p \in Phones : OnSession(p) =>
            \A k \in 1..Len(b) : \A i : i = Len(inbox[p]) + k =>
              /\ i \in DOMAIN inbox'[p] /\ Len(inbox[p]) \in Nat
              /\ OwnEnvelope(p, inbox[p][i])' /\ inbox'[p][i].seq = b[k].seq
       /\ \A p \in Phones : \A k \in DOMAIN inbox'[p] : OwnEnvelope(p, inbox[p][k])' =>
            \/ k \in DOMAIN inbox[p] /\ inbox'[p][k] = inbox[p][k]
            \/ /\ OnSession(p)
               /\ \E j \in 1..Len(b) :
                    k = Len(inbox[p]) + j /\ inbox'[p][k].seq = b[j].seq
  <2>1. nextSeq' \in Nat /\ nextSeq' >= nextSeq
    BY <1>1, <1>2
  <2> QED
    BY <1>1, <1>4, <1>6, <1>9, <1>10, <2>1, EnvelopesLink
(* Whatever is buffered and not applied is among the entries sent. *)
<1>12. ASSUME NEW p \in Phones, NEW k \in DOMAIN buffer, buffer[k].seq > lastApplied[p]
       PROVE  k - skip \in 1..Len(b) /\ b[k - skip].seq = buffer[k].seq
  <2>1. buffer[k].seq \in Nat
    BY <1>7 DEF Entry
  <2>2. lastApplied[p] \in Nat
    BY <1>2
  <2>3. buffer[k].seq > m.last
    BY <1>3, <1>12, <2>1, <2>2
  <2>4. k \notin 1..skip
    BY <1>3, <1>6, <2>1, <2>3
  <2>5. k - skip \in 1..Len(b) /\ (k - skip) + skip = k
    BY <1>6, <1>7, <2>4
  <2> QED
    BY <1>8, <2>5
<1>13. NothingMissing'
  <2> SUFFICES ASSUME NEW p \in Phones, OnSession(p),
                      NEW k \in DOMAIN buffer, buffer[k].seq > lastApplied[p],
                      NEW n, n = buffer[k].seq
               PROVE  InFlight(p, n)'
    BY <1>1, <1>11 DEF NothingMissing, InFlight
  <2>1. k - skip \in 1..Len(b) /\ b[k - skip].seq = n
    BY <1>12
  <2>2. PICK i : i = Len(inbox[p]) + (k - skip)
    OBVIOUS
  <2>3. i \in DOMAIN inbox'[p] /\ OwnEnvelope(p, inbox[p][i])' /\ inbox'[p][i].seq = n
    BY <1>11, <2>1, <2>2
  <2> QED
    BY <2>3 DEF InFlight
<1>14. InTurn'
  <2> SUFFICES ASSUME NEW p \in Phones, NEW k \in DOMAIN inbox'[p], OwnEnvelope(p, inbox[p][k])',
                      NEW n \in (lastApplied[p] + 1)..(inbox'[p][k].seq - 1), Buffered(n)
               PROVE  \E j \in 1..(k - 1) :
                        OwnEnvelope(p, inbox[p][j])' /\ inbox'[p][j].seq = n
    BY <1>1 DEF InTurn, Buffered
  <2>1. CASE k \in DOMAIN inbox[p] /\ inbox'[p][k] = inbox[p][k]
    BY <1>2, <1>11, <2>1, StaysInTurn DEF LinkInv
  <2>2. ASSUME OnSession(p), NEW j \in 1..Len(b), k = Len(inbox[p]) + j,
               inbox'[p][k].seq = b[j].seq
        PROVE  \E i \in 1..(k - 1) : OwnEnvelope(p, inbox[p][i])' /\ inbox'[p][i].seq = n
    <3>1. PICK l \in DOMAIN buffer : buffer[l].seq = n
      BY DEF Buffered
    <3>2. lastApplied[p] \in Nat /\ n > lastApplied[p]
      BY <1>2
    <3>3. l - skip \in 1..Len(b) /\ b[l - skip].seq = n
      BY <1>12, <3>1, <3>2
    <3>4. b[j].seq \in Nat /\ n < b[j].seq
      <4>1. b[j] \in Entry
        BY <1>6, ElementOfSeq
      <4> QED
        BY <2>2, <3>2, <4>1 DEF Entry
    <3>5. l < j + skip
      <4>1. j + skip \in DOMAIN buffer /\ b[j].seq = buffer[j + skip].seq
        BY <1>8
      <4> QED
        <5>1. n = nextSeq - Len(buffer) + l - 1
          BY <1>5, <3>1
        <5>2. b[j].seq = nextSeq - Len(buffer) + (j + skip) - 1
          BY <1>5, <4>1
        <5>3. l \in Nat /\ j + skip \in Nat
          BY <1>6, <1>7, <4>1
        <5> QED
          BY <1>2, <1>7, <3>4, <5>1, <5>2, <5>3
    <3>6. PICK i : i = Len(inbox[p]) + (l - skip)
      OBVIOUS
    <3>7. /\ OwnEnvelope(p, inbox[p][i])' /\ inbox'[p][i].seq = n
          /\ Len(inbox[p]) \in Nat
      BY <1>11, <2>2, <3>3, <3>6
    <3>8. i \in 1..(k - 1)
      <4>1. l \in Nat /\ skip \in Nat /\ j \in Nat /\ l - skip >= 1
        BY <1>6, <1>7, <3>3
      <4>2. l - skip \in Nat /\ l - skip < j
        BY <3>5, <4>1
      <4> QED
        BY <2>2, <3>6, <3>7, <4>1, <4>2
    <3> QED
      BY <3>7, <3>8
  <2> QED
    BY <1>11, <2>1, <2>2
<1> QED
  BY <1>11, <1>13, <1>14 DEF LinkInv

LEMMA QueueLink ==
  ASSUME SideFacts, LinkInv, NEW size \in Sizes, QueueOutbound(size), UNCHANGED phoneVars
  PROVE  LinkInv'
<1> DEFINE entry == [seq |-> nextSeq, size |-> size]
<1>1. BridgeOnly /\ UNCHANGED <<phone, lastApplied, connected, nextEpoch>>
        /\ nextSeq' = nextSeq + 1
  BY DEF QueueOutbound, phoneVars, BridgeOnly, WireLoses
<1>2. /\ nextSeq \in Nat /\ nextEpoch \in Nat /\ buffer \in Seq(Entry) /\ InboxOK
      /\ session \in Session \cup {None} /\ lastApplied \in [Phones -> Nat]
      /\ toBridge \in Seq(PhoneFrame)
  BY DEF SideFacts, RecentInv, TypeOK, TransportTypeOK, InboxOK
<1>3. \A n \in Nat : Buffered(n)' => Buffered(n) \/ n = nextSeq
  BY QueueTypes, Sides DEF SideFacts
<1>4. \A k \in DOMAIN buffer' :
        buffer'[k].seq \in Nat /\ \A n : n = buffer'[k].seq => Buffered(n)'
  <2>1. buffer' \in Seq(Entry)
    BY QueueTypes, Sides DEF SideFacts, BridgeSide, TransportTypeOK
  <2>2. \A k \in DOMAIN buffer' : buffer'[k] \in Entry
    BY <2>1, LenProperties
  <2>3. ASSUME NEW k \in DOMAIN buffer', NEW n, n = buffer'[k].seq
        PROVE  Buffered(n)'
    BY <2>3 DEF Buffered
  <2>4. \A k \in DOMAIN buffer' : buffer'[k].seq \in Nat
    BY <2>2 DEF Entry
  <2> QED
    BY <2>3, <2>4
<1>5. CASE ~(session # None /\ session.resumed)
  <2>1. UNCHANGED <<session, inbox>>
    BY <1>5 DEF QueueOutbound
  <2>2. OnlineInv' /\ ReportInv'
          /\ \A k \in DOMAIN toBridge' :
               toBridge'[k].kind = "resumeState" => toBridge'[k].epoch < nextEpoch'
    BY <1>1, <1>2, WireFacts
  <2>3. \A p \in Phones : \A k \in DOMAIN inbox[p] :
          inbox[p][k].kind = "encryptedEnvelope" => inbox[p][k].seq \in Nat
    <3>1. \A p \in Phones : \A k \in DOMAIN inbox[p] : inbox[p][k] \in BridgeFrame
      BY <1>2, LenProperties DEF InboxOK
    <3> QED
      BY <3>1, BridgeFrameKinds DEF BridgeEnvelope
  <2>4. PastInv'
    BY <1>1, <1>2, <2>1, <2>2, <2>3 DEF LinkInv, PastInv
  <2>5. LateInv'
    BY <1>1, <2>1 DEF LinkInv, LateInv, Late, BridgeOnly, WireLoses
  <2>6. NothingMissing'
    BY <1>5, <2>1 DEF NothingMissing, OnSession
  <2>7. InTurn'
    <3> SUFFICES ASSUME NEW p \in Phones, NEW k \in DOMAIN inbox[p], OwnEnvelope(p, inbox[p][k]),
                        NEW n \in (lastApplied[p] + 1)..(inbox[p][k].seq - 1), Buffered(n)'
                 PROVE  \E j \in 1..(k - 1) :
                          OwnEnvelope(p, inbox[p][j]) /\ inbox[p][j].seq = n
      BY <1>1, <2>1 DEF InTurn, OwnEnvelope
    <3>1. inbox[p][k].seq \in Nat /\ inbox[p][k].seq < nextSeq
      BY <2>3 DEF OwnEnvelope, LinkInv, PastInv
    <3>2. n \in Nat /\ n # nextSeq
      BY <1>2, <3>1
    <3>3. Buffered(n)
      BY <1>3, <3>2
    <3> QED
      BY <3>3 DEF LinkInv, InTurn
  <2> QED
    BY <2>2, <2>4, <2>5, <2>6, <2>7 DEF LinkInv
<1>6. CASE session # None /\ session.resumed
  <2>1. SendEntries(session, <<entry>>) /\ session \in Session
    BY <1>2, <1>6 DEF QueueOutbound
  <2>2. entry \in Entry /\ entry.seq = nextSeq
    BY <1>2 DEF Entry
  <2> HIDE DEF entry
  <2>3. <<entry>> \in Seq(Entry) /\ Len(<<entry>>) = 1 /\ <<entry>>[1] = entry
          /\ DOMAIN <<entry>> = {1}
    BY <2>2, OneFrame
  <2>4. /\ PastInv' /\ OnlineInv' /\ LateInv' /\ ReportInv'
        /\ \A p \in Phones : OnSession(p)' => OnSession(p)
        /\ \A p \in Phones : \A k \in DOMAIN inbox[p] :
             k \in DOMAIN inbox'[p] /\ inbox'[p][k] = inbox[p][k]
        /\ \A p \in Phones : OnSession(p) =>
             \A k \in 1..Len(<<entry>>) : \A i : i = Len(inbox[p]) + k =>
               /\ i \in DOMAIN inbox'[p] /\ Len(inbox[p]) \in Nat
               /\ OwnEnvelope(p, inbox[p][i])' /\ inbox'[p][i].seq = <<entry>>[k].seq
        /\ \A p \in Phones : \A k \in DOMAIN inbox'[p] : OwnEnvelope(p, inbox[p][k])' =>
             \/ k \in DOMAIN inbox[p] /\ inbox'[p][k] = inbox[p][k]
             \/ /\ OnSession(p)
                /\ \E j \in 1..Len(<<entry>>) :
                     k = Len(inbox[p]) + j /\ inbox'[p][k].seq = <<entry>>[j].seq
    <3>1. nextSeq' \in Nat /\ nextSeq' >= nextSeq
            /\ \A k \in DOMAIN <<entry>> : <<entry>>[k].seq < nextSeq'
      BY <1>1, <1>2, <2>2, <2>3
    <3>2. \A p \in Phones : \A e : Late(p, e) => session.epoch < e
      BY <1>6 DEF Late
    <3> QED
      BY <1>1, <1>6, <2>1, <2>3, <3>1, <3>2, EnvelopesLink
  <2>5. ASSUME NEW p \in Phones, OnSession(p), NEW i, i = Len(inbox[p]) + 1
        PROVE  /\ i \in DOMAIN inbox'[p] /\ OwnEnvelope(p, inbox[p][i])'
               /\ inbox'[p][i].seq = nextSeq
    BY <2>2, <2>3, <2>4, <2>5
  <2>6. NothingMissing'
    <3> SUFFICES ASSUME NEW p \in Phones, OnSession(p),
                        NEW k \in DOMAIN buffer', buffer'[k].seq > lastApplied[p],
                        NEW n, n = buffer'[k].seq
                 PROVE  InFlight(p, n)'
      BY <1>1, <2>4 DEF NothingMissing, InFlight
    <3>0. n \in Nat /\ Buffered(n)' /\ n > lastApplied[p]
      BY <1>4
    <3>1. CASE Buffered(n)
      <4>1. InFlight(p, n)
        BY <1>6, <3>0, <3>1 DEF Buffered, LinkInv, NothingMissing
      <4> QED
        BY <1>1, <2>4, <4>1, StaysInFlight
    <3>2. CASE n = nextSeq
      <4>1. PICK i : i = Len(inbox[p]) + 1
        OBVIOUS
      <4>2. i \in DOMAIN inbox'[p] /\ OwnEnvelope(p, inbox[p][i])' /\ inbox'[p][i].seq = n
        BY <2>5, <3>2, <4>1
      <4> QED
        BY <4>2 DEF InFlight
    <3> QED
      BY <1>3, <3>0, <3>1, <3>2
  <2>7. InTurn'
    <3> SUFFICES ASSUME NEW p \in Phones, NEW k \in DOMAIN inbox'[p],
                        OwnEnvelope(p, inbox[p][k])',
                        NEW n \in (lastApplied[p] + 1)..(inbox'[p][k].seq - 1), Buffered(n)'
                 PROVE  \E j \in 1..(k - 1) :
                          OwnEnvelope(p, inbox[p][j])' /\ inbox'[p][j].seq = n
      BY <1>1 DEF InTurn
    <3>1. inbox'[p][k].seq \in Nat /\ inbox'[p][k].seq <= nextSeq
      <4>1. inbox'[p][k] \in BridgeFrame
        BY QueueTypes, Sides, LenProperties DEF SideFacts, BridgeSide, InboxOK
      <4>2. inbox'[p][k].kind = "encryptedEnvelope"
        BY DEF OwnEnvelope
      <4>3. inbox'[p][k].seq < nextSeq + 1
        BY <1>1, <2>4, <4>2 DEF PastInv
      <4>4. inbox'[p][k].seq \in Nat
        BY <4>1, <4>2, BridgeFrameKinds DEF BridgeEnvelope
      <4> QED
        BY <1>2, <4>3, <4>4
    <3>2. n \in Nat /\ n # nextSeq /\ n > lastApplied[p]
      BY <1>2, <3>1
    <3>3. Buffered(n)
      BY <1>3, <3>2
    <3>4. CASE k \in DOMAIN inbox[p] /\ inbox'[p][k] = inbox[p][k]
      <4>1. n \in (lastApplied[p] + 1)..(inbox[p][k].seq - 1)
        BY <3>4
      <4>2. InTurn
        BY DEF LinkInv
      <4> QED
        BY <1>1, <1>2, <2>4, <3>3, <3>4, <4>1, <4>2, StaysInTurn
    <3>5. CASE OnSession(p) /\ k = Len(inbox[p]) + 1
      <4>1. InFlight(p, n)
        BY <1>6, <3>2, <3>3, <3>5 DEF Buffered, LinkInv, NothingMissing
      <4>2. PICK j \in DOMAIN inbox[p] : OwnEnvelope(p, inbox[p][j]) /\ inbox[p][j].seq = n
        BY <4>1 DEF InFlight
      <4>3. j \in 1..Len(inbox[p]) /\ Len(inbox[p]) \in Nat
        BY <1>2, LenProperties DEF InboxOK
      <4>4. inbox'[p][j] = inbox[p][j]
        BY <2>4
      <4>5. j \in 1..(k - 1)
        BY <3>5, <4>3
      <4>6. OwnEnvelope(p, inbox[p][j])' /\ inbox'[p][j].seq = n
        BY <1>1, <4>2, <4>4 DEF OwnEnvelope
      <4> QED
        BY <4>5, <4>6
    <3> QED
      BY <2>3, <2>4, <3>4, <3>5
  <2> QED
    BY <2>4, <2>6, <2>7 DEF LinkInv
<1> QED
  BY <1>5, <1>6

-----------------------------------------------------------------------------
(***************************************************************************)
(* The steps of a phone that is alone keep LinkInv.                        *)
(***************************************************************************)

(* No resumeState is added to the wire. *)
NoReport ==
  \A k \in DOMAIN toBridge' : toBridge'[k].kind = "resumeState" =>
    \E j \in DOMAIN toBridge : toBridge'[k] = toBridge[j]

FramesTaken ==
  \A q \in Phones : \A k \in DOMAIN inbox'[q] :
    \E j \in DOMAIN inbox[q] : inbox'[q][k] = inbox[q][j]

LEMMA PhoneFacts ==
  ASSUME LinkInv, PhoneStep, NoReport, FramesTaken, toBridge \in Seq(PhoneFrame),
         lastApplied \in [Phones -> Nat],
         \A q \in Phones : lastApplied'[q] \in Nat /\ lastApplied'[q] >= lastApplied[q]
  PROVE  /\ PastInv' /\ ReportInv'
         /\ \A q \in Phones : \A e : Late(q, e) => Late(q, e)'
<1>1. PastInv'
  BY DEF PhoneStep, NoReport, FramesTaken, LinkInv, PastInv
<1>2. ReportInv'
  <2> SUFFICES ASSUME NEW j \in DOMAIN toBridge, toBridge[j].kind = "resumeState",
                      NEW q \in Phones
               PROVE  toBridge[j].last <= lastApplied'[q]
    BY DEF ReportInv, NoReport
  <2>1. toBridge[j] \in PhoneFrame
    BY LenProperties
  <2>2. toBridge[j].last \in Nat
    BY <2>1, PhoneFrameKinds DEF ResumeMsg
  <2>3. toBridge[j].last <= lastApplied[q]
    BY DEF LinkInv, ReportInv
  <2>4. lastApplied[q] \in Nat
    OBVIOUS
  <2> QED
    BY <2>2, <2>3, <2>4
<1>3. \A q \in Phones : \A e : Late(q, e) => Late(q, e)'
  BY DEF PhoneStep, NoReport, FramesTaken, Late
<1> QED
  BY <1>1, <1>2, <1>3

(* Where the one phone has no session, there is nothing it could miss. *)
LEMMA NotOnline ==
  ASSUME Alone, NEW p \in Phones, phone'[p].step # "ready"
  PROVE  InTurn' /\ NothingMissing'
<1>1. \A q \in Phones : q = p
  BY DEF Alone
<1>2. \A q \in Phones : phone'[q].step # "ready"
  BY <1>1
<1> QED
  BY <1>2 DEF InTurn, NothingMissing, OwnEnvelope, OnSession

LinkTypes ==
  /\ InboxOK /\ toBridge \in Seq(PhoneFrame) /\ lastApplied \in [Phones -> Nat]
  /\ phone \in [Phones -> Device] /\ buffer \in Seq(Entry)

LEMMA ConnectLink ==
  ASSUME Alone, LinkTypes, LinkInv, NEW p \in Phones, NEW mode \in Modes, Connect(p, mode)
  PROVE  LinkInv'
<1> USE DEF LinkTypes
<1>1. /\ PhoneStep /\ UNCHANGED lastApplied
      /\ phone' = [phone EXCEPT ![p] = [step |-> "hello", mode |-> mode, cnonce |-> nonces']]
      /\ connected' = connected \cup {p} /\ inbox' = [inbox EXCEPT ![p] = <<>>]
  BY DEF Connect, Join
<1>2. phone'[p].step = "hello"
  BY <1>1
<1>3. \A q \in Phones : q = p
  BY DEF Alone
<1>4. inbox'[p] = <<>> /\ DOMAIN inbox'[p] = {}
  BY <1>1, EmptySeq DEF InboxOK
<1>5. NoReport
  <2> DEFINE m == [kind |-> "clientHello", phone |-> p, mode |-> mode,
                   secret |-> ProofSecret(p, mode), cnonce |-> nonces']
  <2>1. ToBridge(m) /\ m.kind = "clientHello"
    BY DEF Connect
  <2> HIDE DEF m
  <2> QED
    BY <2>1, WireGrows DEF WireAdds, NoReport
<1>6. PastInv' /\ ReportInv'
  BY <1>1, <1>3, <1>4, <1>5, PhoneFacts DEF FramesTaken
<1>7. LateInv'
  BY <1>2, <1>3, <1>4 DEF LateInv
<1>8. OnlineInv'
  BY <1>1, <1>3 DEF OnlineInv
<1> QED
  BY <1>2, <1>6, <1>7, <1>8, NotOnline DEF LinkInv

LEMMA DisconnectLink ==
  ASSUME Alone, LinkTypes, LinkInv, NEW p \in Phones, Disconnect(p)
  PROVE  LinkInv'
<1> USE DEF LinkTypes
<1>1. /\ PhoneStep /\ UNCHANGED <<lastApplied, toBridge>>
      /\ phone' = [phone EXCEPT ![p] = Away]
      /\ inbox' = [inbox EXCEPT ![p] = <<>>]
  BY DEF Disconnect, Drop
<1>2. phone'[p].step = "away"
  BY <1>1 DEF Away
<1>3. \A q \in Phones : q = p
  BY DEF Alone
<1>4. inbox'[p] = <<>> /\ DOMAIN inbox'[p] = {}
  BY <1>1, EmptySeq DEF InboxOK
<1>5. NoReport
  BY <1>1 DEF NoReport
<1>6. PastInv' /\ ReportInv'
  BY <1>1, <1>3, <1>4, <1>5, PhoneFacts DEF FramesTaken
<1>7. LateInv' /\ OnlineInv'
  BY <1>2, <1>3 DEF LateInv, OnlineInv
<1> QED
  BY <1>2, <1>6, <1>7, NotOnline DEF LinkInv

(* The phone takes the first frame that has reached it. *)
LEMMA Taken ==
  ASSUME Alone, InboxOK, NEW p \in Phones, inbox[p] # <<>>, TakeFrame(p)
  PROVE  FramesTaken
<1>1. \A q \in Phones : q = p
  BY DEF Alone
<1>2. \A k \in DOMAIN inbox'[p] : k + 1 \in DOMAIN inbox[p] /\ inbox'[p][k] = inbox[p][k + 1]
  BY InboxShrinks
<1> QED
  BY <1>1, <1>2 DEF FramesTaken

LEMMA AuthenticateLink ==
  ASSUME Alone, LinkTypes, LinkInv, NEW p \in Phones, Authenticate(p)
  PROVE  LinkInv'
<1> USE DEF LinkTypes
<1>1. PhoneStep /\ UNCHANGED <<connected, lastApplied>> /\ inbox[p] # <<>> /\ TakeFrame(p)
  BY DEF Authenticate
<1>2. PICK m, secret :
        /\ m = Head(inbox[p]) /\ OwnServerHello(p, m)
        /\ phone' = [phone EXCEPT ![p] =
             [step |-> "auth", counter |-> 0,
              key |-> [phone |-> p, cnonce |-> m.cnonce, snonce |-> m.snonce, epoch |-> m.epoch,
                       secret |-> IF secret = "code" THEN "derived" ELSE secret]]]
        /\ ToBridge([kind |-> "clientAuth", phone |-> p, secret |-> secret,
                     cnonce |-> m.cnonce, snonce |-> m.snonce, epoch |-> m.epoch])
  BY DEF Authenticate
<1>3. phone'[p].step = "auth" /\ phone'[p].key.epoch = m.epoch
  BY <1>2
<1>4. \A q \in Phones : q = p
  BY DEF Alone
<1>5. NoReport
  <2> DEFINE f == [kind |-> "clientAuth", phone |-> p, secret |-> secret,
                   cnonce |-> m.cnonce, snonce |-> m.snonce, epoch |-> m.epoch]
  <2>1. ToBridge(f) /\ f.kind = "clientAuth"
    BY <1>2
  <2> HIDE DEF f
  <2> QED
    BY <2>1, WireGrows DEF WireAdds, NoReport
<1>6. PastInv' /\ ReportInv' /\ \A q \in Phones : \A e : Late(q, e) => Late(q, e)'
  BY <1>1, <1>5, Taken, PhoneFacts
<1>7. Late(p, m.epoch)
  <2>1. 1 \in DOMAIN inbox[p] /\ inbox[p][1] = m
    BY <1>1, <1>2, InboxShrinks
  <2> QED
    BY <1>2, <2>1 DEF OwnServerHello, LinkInv, LateInv
<1>8. LateInv'
  <2>1. ASSUME NEW e, e = phone'[p].key.epoch PROVE Late(p, e)'
    BY <1>3, <1>6, <1>7, <2>1
  <2> QED
    BY <1>3, <1>4, <2>1 DEF LateInv, Late
<1>9. OnlineInv'
  BY <1>1, <1>2, <1>4 DEF OwnServerHello, LinkInv, OnlineInv
<1> QED
  BY <1>3, <1>6, <1>8, <1>9, NotOnline DEF LinkInv

(* A phone that becomes ready has nothing of this session before it: no    *)
(* envelope, and no resumeState that the bridge has read.                  *)
LEMMA ResumeStepLink ==
  ASSUME Alone, LinkTypes, LinkInv, SessionInv, NEW p \in Phones, Resume(p)
  PROVE  LinkInv'
<1> USE DEF LinkTypes
<1>1. /\ PhoneStep /\ UNCHANGED <<connected, lastApplied>> /\ inbox[p] # <<>> /\ TakeFrame(p)
      /\ OwnSecureReady(p, Head(inbox[p]))
      /\ ToBridge([kind |-> "resumeState", epoch |-> phone[p].key.epoch,
                   last |-> lastApplied[p]])
      /\ phone' = [phone EXCEPT ![p] = [phone[p] EXCEPT !.step = "ready"]]
  BY DEF Resume
<1>2. phone[p].step = "auth" /\ phone[p].key.epoch = Head(inbox[p]).epoch
  BY <1>1 DEF OwnSecureReady
<1>3. phone'[p].step = "ready" /\ phone'[p].key = phone[p].key
  <2>1. phone[p] \in [step : {"auth", "ready"}, key : Key, counter : Nat]
    BY <1>2, DeviceSteps
  <2> QED
    BY <1>1, <2>1
<1>4. \A q \in Phones : q = p
  BY DEF Alone
<1>5. Late(p, phone[p].key.epoch)
  BY <1>2 DEF LinkInv, LateInv
<1> DEFINE f == [kind |-> "resumeState", epoch |-> phone[p].key.epoch, last |-> lastApplied[p]]
<1>6. WireAdds(f)
  BY <1>1, WireGrows
<1>7. phone[p].key.epoch < nextEpoch /\ FramesTaken
  <2>1. 1 \in DOMAIN inbox[p] /\ inbox[p][1] = Head(inbox[p])
    BY <1>1, InboxShrinks
  <2>2. Head(inbox[p]).kind = "secureReady"
    BY <1>1 DEF OwnSecureReady
  <2>3. Head(inbox[p]).epoch < nextEpoch
    BY <2>1, <2>2 DEF LinkInv, PastInv
  <2> QED
    BY <1>1, <1>2, <2>3, Taken
<1>8. PastInv'
  <2>1. \A k \in DOMAIN toBridge' :
          toBridge'[k].kind = "resumeState" => toBridge'[k].epoch < nextEpoch
    <3> SUFFICES ASSUME NEW k \in DOMAIN toBridge', toBridge'[k].kind = "resumeState"
                 PROVE  toBridge'[k].epoch < nextEpoch
      OBVIOUS
    <3>1. CASE toBridge'[k] = f
      BY <1>7, <3>1
    <3>2. CASE \E j \in DOMAIN toBridge : toBridge'[k] = toBridge[j]
      BY <3>2 DEF LinkInv, PastInv
    <3> QED
      BY <1>6, <3>1, <3>2 DEF WireAdds
  <2>2. UNCHANGED <<nextEpoch, nextSeq>>
    BY <1>1 DEF PhoneStep
  <2> QED
    BY <1>7, <2>1, <2>2 DEF FramesTaken, LinkInv, PastInv
<1>9. ReportInv'
  <2> SUFFICES ASSUME NEW k \in DOMAIN toBridge', toBridge'[k].kind = "resumeState"
               PROVE  toBridge'[k].last <= lastApplied[p]
    BY <1>1, <1>4 DEF ReportInv
  <2>1. CASE toBridge'[k] = f
    <3>1. lastApplied[p] \in Nat
      OBVIOUS
    <3> QED
      BY <2>1, <3>1
  <2>2. CASE \E j \in DOMAIN toBridge : toBridge'[k] = toBridge[j]
    BY <2>2 DEF LinkInv, ReportInv
  <2> QED
    BY <1>6, <2>1, <2>2 DEF WireAdds
<1>10. LateInv' /\ OnlineInv'
  BY <1>1, <1>2, <1>3, <1>4 DEF LateInv, LinkInv, OnlineInv
<1>11. phone[p].key.epoch \in Nat
  <2>1. phone[p] \in [step : {"auth", "ready"}, key : Key, counter : Nat]
    BY <1>2, DeviceSteps
  <2> QED
    BY <2>1 DEF Key
<1>12. InTurn'
  <2>1. \A k \in DOMAIN inbox'[p] : ~OwnEnvelope(p, inbox[p][k])'
    BY <1>3, <1>5, <1>7, <1>11 DEF OwnEnvelope, FramesTaken, Late
  <2> QED
    BY <1>4, <2>1 DEF InTurn
<1>13. NothingMissing'
  <2>1. ~(OnSession(p)' /\ session'.resumed)
    BY <1>1, <1>3, <1>5, <1>11 DEF PhoneStep, OnSession, Late, SessionInv
  <2> QED
    BY <1>4, <2>1 DEF NothingMissing
<1> QED
  BY <1>8, <1>9, <1>10, <1>12, <1>13 DEF LinkInv

(* The phone reads a frame, and has applied at least that message. *)
LEMMA ReadLink ==
  ASSUME Alone, LinkTypes, LinkInv, NEW p \in Phones, inbox[p] # <<>>, TakeFrame(p),
         PhoneStep, UNCHANGED <<phone, toBridge, connected>>,
         \A q \in Phones : lastApplied'[q] \in Nat /\ lastApplied'[q] >= lastApplied[q],
         OwnEnvelope(p, Head(inbox[p])) => Head(inbox[p]).seq <= lastApplied'[p]
  PROVE  LinkInv'
<1> USE DEF LinkTypes
<1>1. \A q \in Phones : q = p
  BY DEF Alone
<1>2. /\ 1 \in DOMAIN inbox[p] /\ inbox[p][1] = Head(inbox[p])
      /\ \A k \in DOMAIN inbox'[p] :
           k \in Nat \ {0} /\ k + 1 \in DOMAIN inbox[p] /\ inbox'[p][k] = inbox[p][k + 1]
      /\ \A k \in DOMAIN inbox[p] :
           k # 1 => k - 1 \in DOMAIN inbox'[p] /\ inbox'[p][k - 1] = inbox[p][k]
  BY InboxShrinks
<1>3. NoReport /\ FramesTaken
  BY Taken DEF NoReport
<1>4. PastInv' /\ ReportInv' /\ \A q \in Phones : \A e : Late(q, e) => Late(q, e)'
  BY <1>3, PhoneFacts
<1>5. LateInv' /\ OnlineInv'
  <2>1. ASSUME NEW q \in Phones, phone[q].step = "hello", NEW k \in DOMAIN inbox'[q],
               inbox'[q][k].kind = "serverHello", NEW e, e = inbox'[q][k].epoch
        PROVE  Late(q, e)'
    <3>1. PICK j \in DOMAIN inbox[q] : inbox'[q][k] = inbox[q][j]
      BY <1>3 DEF FramesTaken
    <3>2. Late(q, e)
      BY <2>1, <3>1 DEF LinkInv, LateInv
    <3> QED
      BY <1>4, <3>2
  <2>2. ASSUME NEW q \in Phones, phone[q].step = "auth", NEW e, e = phone[q].key.epoch
        PROVE  Late(q, e)'
    BY <1>4, <2>2 DEF LinkInv, LateInv
  <2>3. OnlineInv'
    BY DEF LinkInv, OnlineInv
  <2> QED
    BY <2>1, <2>2, <2>3 DEF LateInv, Late
<1>6. lastApplied[p] \in Nat /\ lastApplied'[p] \in Nat /\ lastApplied'[p] >= lastApplied[p]
  OBVIOUS
(* A message beyond those applied is still on its way, one place further. *)
<1>7. ASSUME NEW j \in DOMAIN inbox[p], OwnEnvelope(p, inbox[p][j]), NEW n \in Nat,
             inbox[p][j].seq = n, n > lastApplied'[p], NEW i, i = j - 1
      PROVE  /\ j # 1 /\ i \in DOMAIN inbox'[p]
             /\ OwnEnvelope(p, inbox[p][i])' /\ inbox'[p][i].seq = n
  <2>1. j # 1
    <3> SUFFICES ASSUME j = 1 PROVE FALSE
      OBVIOUS
    <3>1. n <= lastApplied'[p]
      BY <1>2, <1>7
    <3> QED
      BY <1>6, <1>7, <3>1
  <2>2. i \in DOMAIN inbox'[p] /\ inbox'[p][i] = inbox[p][j]
    BY <1>2, <1>7, <2>1
  <2> QED
    BY <1>7, <2>1, <2>2 DEF OwnEnvelope
<1>8. ASSUME NEW k \in DOMAIN inbox'[p], OwnEnvelope(p, inbox[p][k])',
             NEW n \in (lastApplied'[p] + 1)..(inbox'[p][k].seq - 1), Buffered(n)'
      PROVE  \E j \in 1..(k - 1) :
               OwnEnvelope(p, inbox[p][j])' /\ inbox'[p][j].seq = n
  <2>1. k \in Nat \ {0} /\ k + 1 \in DOMAIN inbox[p] /\ inbox'[p][k] = inbox[p][k + 1]
    BY <1>2
  <2>2. OwnEnvelope(p, inbox[p][k + 1])
    BY <1>8, <2>1 DEF OwnEnvelope
  <2>3. inbox[p][k + 1].seq \in Nat
    <3>1. inbox[p][k + 1] \in BridgeFrame
      BY <2>1, LenProperties DEF InboxOK
    <3> QED
      BY <2>2, <3>1, BridgeFrameKinds DEF OwnEnvelope, BridgeEnvelope
  <2>4. n \in Nat /\ n > lastApplied'[p] /\ n \in (lastApplied[p] + 1)..(inbox[p][k + 1].seq - 1)
    BY <1>6, <1>8, <2>1, <2>3
  <2>5. Buffered(n)
    BY <1>8 DEF Buffered, PhoneStep
  <2>6. PICK j \in 1..((k + 1) - 1) : OwnEnvelope(p, inbox[p][j]) /\ inbox[p][j].seq = n
    BY <2>1, <2>2, <2>4, <2>5 DEF LinkInv, InTurn
  <2>7. j \in DOMAIN inbox[p]
    <3>1. inbox[p] \in Seq(BridgeFrame)
      BY DEF InboxOK
    <3>2. DOMAIN inbox[p] = 1..Len(inbox[p]) /\ Len(inbox[p]) \in Nat
      BY <3>1, LenProperties
    <3> QED
      BY <2>1, <2>6, <3>2
  <2>8. PICK i : i = j - 1
    OBVIOUS
  <2>9. /\ j # 1 /\ i \in DOMAIN inbox'[p]
        /\ OwnEnvelope(p, inbox[p][i])' /\ inbox'[p][i].seq = n
    BY <1>7, <2>4, <2>6, <2>7, <2>8
  <2>10. i \in 1..(k - 1)
    BY <2>1, <2>6, <2>8, <2>9
  <2> QED
    BY <2>9, <2>10
<1>9. InTurn'
  <2> SUFFICES ASSUME NEW q \in Phones, NEW k \in DOMAIN inbox'[q], OwnEnvelope(q, inbox[q][k])',
                      NEW n \in (lastApplied'[q] + 1)..(inbox'[q][k].seq - 1), Buffered(n)'
               PROVE  \E j \in 1..(k - 1) :
                        OwnEnvelope(q, inbox[q][j])' /\ inbox'[q][j].seq = n
    BY DEF InTurn
  <2>1. q = p
    BY <1>1
  <2> QED
    BY <1>8, <2>1
<1>10. NothingMissing'
  <2> SUFFICES ASSUME OnSession(p)', session'.resumed, NEW k \in DOMAIN buffer',
                      buffer'[k].seq > lastApplied'[p], NEW n, n = buffer'[k].seq
               PROVE  InFlight(p, n)'
    BY <1>1 DEF NothingMissing, InFlight
  <2>0. UNCHANGED <<session, buffer>>
    BY DEF PhoneStep
  <2>1. OnSession(p) /\ session.resumed /\ k \in DOMAIN buffer
    BY <2>0 DEF OnSession
  <2>2. CASE n \in Nat
    <3>1. n > lastApplied'[p] /\ n > lastApplied[p] /\ n = buffer[k].seq
      BY <1>6, <2>0, <2>2
    <3>2. InFlight(p, n)
      BY <2>1, <3>1 DEF LinkInv, NothingMissing
    <3>3. PICK j \in DOMAIN inbox[p] : OwnEnvelope(p, inbox[p][j]) /\ inbox[p][j].seq = n
      BY <3>2 DEF InFlight
    <3>4. PICK i : i = j - 1
      OBVIOUS
    <3>5. i \in DOMAIN inbox'[p] /\ OwnEnvelope(p, inbox[p][i])' /\ inbox'[p][i].seq = n
      BY <1>7, <2>2, <3>1, <3>3, <3>4
    <3> QED
      BY <3>5 DEF InFlight
  <2>3. n \in Nat
    <3>1. buffer[k] \in Entry
      BY <2>1, LenProperties
    <3> QED
      BY <2>0, <3>1 DEF Entry
  <2> QED
    BY <2>2, <2>3
<1> QED
  BY <1>4, <1>5, <1>9, <1>10 DEF LinkInv

LEMMA ApplyLink ==
  ASSUME Alone, LinkTypes, LinkInv, NEW p \in Phones, Apply(p)
  PROVE  /\ LinkInv'
         /\ \A n \in (lastApplied[p] + 1)..(lastApplied'[p] - 1) : ~Buffered(n)
<1> USE DEF LinkTypes
<1>1. /\ PhoneStep /\ UNCHANGED <<phone, toBridge, connected>>
      /\ inbox[p] # <<>> /\ TakeFrame(p)
  BY DEF Apply
<1>2. PICK m : /\ m = Head(inbox[p]) /\ OwnEnvelope(p, m)
               /\ lastApplied' = [lastApplied EXCEPT ![p] =
                    IF m.seq > lastApplied[p] THEN m.seq ELSE lastApplied[p]]
  BY DEF Apply
<1>3. 1 \in DOMAIN inbox[p] /\ inbox[p][1] = m
  BY <1>1, <1>2, InboxShrinks
<1>4. m.seq \in Nat
  <2>1. m \in BridgeFrame
    BY <1>3, LenProperties DEF InboxOK
  <2> QED
    BY <1>2, <2>1, BridgeFrameKinds DEF OwnEnvelope, BridgeEnvelope
<1>5. \A q \in Phones : lastApplied[q] \in Nat
  OBVIOUS
<1>6. \A q \in Phones : lastApplied'[q] \in Nat /\ lastApplied'[q] >= lastApplied[q]
  BY <1>2, <1>4, <1>5
<1>7. m.seq <= lastApplied'[p]
  BY <1>2, <1>4, <1>5
<1>8. LinkInv'
  BY <1>1, <1>2, <1>6, <1>7, ReadLink
<1>9. ASSUME NEW n \in (lastApplied[p] + 1)..(lastApplied'[p] - 1)
      PROVE  ~Buffered(n)
  <2>1. n \in (lastApplied[p] + 1)..(inbox[p][1].seq - 1)
    BY <1>2, <1>3, <1>4, <1>5, <1>9
  <2>2. Buffered(n) => \E j \in 1..(1 - 1) : OwnEnvelope(p, inbox[p][j])
    BY <1>2, <1>3, <2>1 DEF LinkInv, InTurn
  <2> QED
    BY <2>2
<1> QED
  BY <1>8, <1>9

LEMMA IgnoreLink ==
  ASSUME Alone, LinkTypes, LinkInv, NEW p \in Phones, Ignore(p)
  PROVE  LinkInv'
<1> USE DEF LinkTypes
<1>1. /\ PhoneStep /\ UNCHANGED <<phone, toBridge, connected, lastApplied>>
      /\ inbox[p] # <<>> /\ TakeFrame(p) /\ ~OwnEnvelope(p, Head(inbox[p]))
  BY DEF Ignore, phoneVars
<1>2. \A q \in Phones : lastApplied'[q] \in Nat /\ lastApplied'[q] >= lastApplied[q]
  BY <1>1
<1> QED
  BY <1>1, <1>2, ReadLink

(* An envelope goes to the bridge, for the first time or again. *)
LEMMA SendLink ==
  ASSUME LinkTypes, LinkInv, PhoneStep, UNCHANGED <<connected, inbox, lastApplied>>,
         NEW m, m.kind = "encryptedEnvelope", ToBridge(m),
         \A q \in Phones : phone'[q].step = phone[q].step /\ phone'[q].key = phone[q].key
  PROVE  LinkInv'
<1> USE DEF LinkTypes
<1>1. NoReport
  BY WireGrows DEF WireAdds, NoReport
<1>2. FramesTaken
  BY DEF FramesTaken
<1>3. \A q \in Phones : lastApplied'[q] \in Nat /\ lastApplied'[q] >= lastApplied[q]
  OBVIOUS
<1>4. PastInv' /\ ReportInv' /\ \A q \in Phones : \A e : Late(q, e) => Late(q, e)'
  BY <1>1, <1>2, <1>3, PhoneFacts
<1>5. LateInv' /\ OnlineInv'
  <2>1. ASSUME NEW q \in Phones, phone[q].step = "hello", NEW k \in DOMAIN inbox[q],
               inbox[q][k].kind = "serverHello", NEW e, e = inbox[q][k].epoch
        PROVE  Late(q, e)'
    BY <1>4, <2>1 DEF LinkInv, LateInv
  <2>2. ASSUME NEW q \in Phones, phone[q].step = "auth", NEW e, e = phone[q].key.epoch
        PROVE  Late(q, e)'
    BY <1>4, <2>2 DEF LinkInv, LateInv
  <2>3. OnlineInv'
    BY DEF LinkInv, OnlineInv
  <2> QED
    BY <2>1, <2>2, <2>3 DEF LateInv, Late
<1>6. UNCHANGED <<session, buffer>>
  BY DEF PhoneStep
<1>7. InTurn'
  <2> SUFFICES ASSUME NEW q \in Phones, NEW k \in DOMAIN inbox[q], OwnEnvelope(q, inbox[q][k])',
                      NEW n \in (lastApplied[q] + 1)..(inbox[q][k].seq - 1), Buffered(n)'
               PROVE  \E j \in 1..(k - 1) :
                        OwnEnvelope(q, inbox[q][j])' /\ inbox[q][j].seq = n
    BY DEF InTurn
  <2>1. OwnEnvelope(q, inbox[q][k]) /\ Buffered(n)
    BY <1>6 DEF OwnEnvelope, Buffered
  <2>2. PICK j \in 1..(k - 1) : OwnEnvelope(q, inbox[q][j]) /\ inbox[q][j].seq = n
    BY <2>1 DEF LinkInv, InTurn
  <2>3. OwnEnvelope(q, inbox[q][j])'
    BY <2>2 DEF OwnEnvelope
  <2> QED
    BY <2>2, <2>3
<1>8. NothingMissing'
  <2>1. \A q \in Phones : OnSession(q)' /\ session'.resumed => OnSession(q) /\ session.resumed
    BY <1>6 DEF OnSession
  <2>2. \A q \in Phones : \A n : InFlight(q, n) => InFlight(q, n)'
    BY DEF InFlight, OwnEnvelope
  <2> QED
    BY <1>6, <2>1, <2>2 DEF LinkInv, NothingMissing
<1> QED
  BY <1>4, <1>5, <1>7, <1>8 DEF LinkInv

LEMMA LinkInit == Init => LinkInv
<1> SUFFICES ASSUME Init PROVE LinkInv
  OBVIOUS
<1>1. \A p \in Phones : phone[p].step = "away"
  BY DEF Init, Away
<1>2. DOMAIN toBridge = {} /\ \A p \in Phones : DOMAIN inbox[p] = {}
  BY EmptySeq DEF Init, EmptySession
<1>3. PastInv /\ ReportInv
  BY <1>2 DEF PastInv, ReportInv
<1>4. LateInv /\ OnlineInv
  BY <1>1 DEF LateInv, OnlineInv
<1>5. InTurn /\ NothingMissing
  BY <1>1 DEF InTurn, NothingMissing, OwnEnvelope, OnSession
<1> QED
  BY <1>3, <1>4, <1>5 DEF LinkInv

(* What the action property says of one step. *)
NoneLeftOut ==
  \A p \in Phones :
    \A n \in (lastApplied[p] + 1)..(lastApplied'[p] - 1) : ~Buffered(n)

LEMMA ReceiveLink ==
  ASSUME SideFacts, LinkInv, ReceiveFrame, UNCHANGED phoneVars
  PROVE  LinkInv'
<1> DEFINE m == toBridge[1]
<1>1. /\ toBridge # <<>> /\ HandleIncoming(Head(toBridge)) /\ toBridge' = Tail(toBridge)
      /\ UNCHANGED <<connected, phone, lastApplied>>
  BY DEF ReceiveFrame, phoneVars
<1>2. toBridge \in Seq(PhoneFrame) /\ session \in Session \cup {None}
  BY DEF SideFacts, RecentInv, TypeOK, TransportTypeOK
<1>3. WireLoses /\ 1 \in DOMAIN toBridge /\ Head(toBridge) = m
  BY <1>1, <1>2, WireShrinks
<1>4. BridgeOnly
  BY <1>1, <1>3 DEF BridgeOnly
<1>5. m \in PhoneFrame
  BY <1>2, <1>3, LenProperties
<1>6. HandleIncoming(m)
  BY <1>1, <1>3
<1>7. CASE HandleEncryptedEnvelope(m)
  <2>1. /\ session # None /\ UNCHANGED <<inbox, nextEpoch, nextSeq, buffer>>
        /\ session' = [session EXCEPT !.in = m.counter]
    BY <1>7 DEF HandleEncryptedEnvelope, AcceptsEnvelope
  <2>2. session \in Session
    BY <1>2, <2>1
  <2>3. /\ session'.epoch = session.epoch /\ session'.key = session.key
        /\ session'.resumed = session.resumed
    BY <2>1, <2>2 DEF Session
  <2> QED
    BY <1>4, <2>1, <2>3, QuietLink
<1>8. CASE Refuse(m)
  <2>1. UNCHANGED <<session, inbox, nextEpoch, nextSeq, buffer>>
    BY <1>8 DEF Refuse, transportVars
  <2> QED
    BY <1>4, <2>1, QuietLink
<1> HIDE DEF m
<1>9. m = toBridge[1]
  BY DEF m
<1> QED
  BY <1>3, <1>4, <1>5, <1>6, <1>7, <1>8, <1>9, HelloLink, AuthLink, ResumeLink DEF HandleIncoming

LEMMA LinkStep ==
  ASSUME Alone, ChannelInv, RecentInv, LinkInv, [Next]_vars
  PROVE  LinkInv' /\ NoneLeftOut
<1>1. SideFacts /\ LinkTypes /\ SessionInv
  BY DEF SideFacts, LinkTypes, ChannelInv, TransportInv, RecentInv, TypeOK, TransportTypeOK,
         InboxOK
<1>2. UNCHANGED lastApplied => NoneLeftOut
  <2>1. \A p \in Phones : lastApplied[p] \in Nat
    BY <1>1 DEF LinkTypes
  <2>2. \A n \in Nat : (n + 1)..(n - 1) = {}
    OBVIOUS
  <2> QED
    BY <2>1, <2>2 DEF NoneLeftOut
<1>3. CASE Bridge /\ UNCHANGED phoneVars
  <2>1. UNCHANGED phoneVars /\ UNCHANGED lastApplied
    BY <1>3 DEF phoneVars
  <2>2. CASE ReceiveFrame
    BY <1>1, <1>2, <2>1, <2>2, ReceiveLink
  <2>3. CASE \E size \in Sizes : QueueOutbound(size)
    BY <1>1, <1>2, <2>1, <2>3, QueueLink
  <2>4. CASE ExpirePairing
    <3>1. /\ BridgeOnly /\ UNCHANGED <<inbox, nextEpoch, nextSeq, buffer>>
          /\ UNCHANGED session
      BY <1>3, <2>4 DEF ExpirePairing, BridgeOnly, WireLoses, relayVars, phoneVars
    <3> QED
      BY <1>1, <1>2, <2>1, <3>1, QuietLink
  <2> QED
    BY <1>3, <2>2, <2>3, <2>4 DEF Bridge
<1>4. ASSUME NEW p \in Phones, \E mode \in Modes : Connect(p, mode)
      PROVE  LinkInv' /\ NoneLeftOut
  BY <1>1, <1>2, <1>4, ConnectLink DEF Connect
<1>5. ASSUME NEW p \in Phones, Disconnect(p)
      PROVE  LinkInv' /\ NoneLeftOut
  BY <1>1, <1>2, <1>5, DisconnectLink DEF Disconnect
<1>6. ASSUME NEW p \in Phones, Authenticate(p)
      PROVE  LinkInv' /\ NoneLeftOut
  BY <1>1, <1>2, <1>6, AuthenticateLink DEF Authenticate
<1>7. ASSUME NEW p \in Phones, Resume(p)
      PROVE  LinkInv' /\ NoneLeftOut
  BY <1>1, <1>2, <1>7, ResumeStepLink DEF Resume
<1>8. ASSUME NEW p \in Phones, Apply(p)
      PROVE  LinkInv' /\ NoneLeftOut
  BY <1>1, <1>8, ApplyLink DEF NoneLeftOut, Alone
<1>9. ASSUME NEW p \in Phones, Ignore(p)
      PROVE  LinkInv' /\ NoneLeftOut
  BY <1>1, <1>2, <1>9, IgnoreLink DEF Ignore, phoneVars
<1>10. ASSUME NEW p \in Phones, SendEnvelope(p)
       PROVE  LinkInv' /\ NoneLeftOut
  <2> DEFINE m == [kind |-> "encryptedEnvelope", epoch |-> phone[p].key.epoch,
                   counter |-> phone[p].counter + 1, key |-> phone[p].key]
  <2>1. /\ PhoneStep /\ UNCHANGED <<connected, inbox, lastApplied>> /\ ToBridge(m)
        /\ phone' = [phone EXCEPT ![p] = [phone[p] EXCEPT !.counter = phone[p].counter + 1]]
    BY <1>10 DEF SendEnvelope
  <2>2. phone[p] \in [step : {"auth", "ready"}, key : Key, counter : Nat]
    BY <1>1, <1>10, DeviceSteps DEF SendEnvelope, LinkTypes
  <2>3. \A q \in Phones : phone'[q].step = phone[q].step /\ phone'[q].key = phone[q].key
    BY <1>1, <2>1, <2>2 DEF LinkTypes
  <2>4. m.kind = "encryptedEnvelope"
    OBVIOUS
  <2> HIDE DEF m
  <2> QED
    BY <1>1, <1>2, <2>1, <2>3, <2>4, SendLink
<1>11. ASSUME NEW m \in aired, Repeat(m)
       PROVE  LinkInv' /\ NoneLeftOut
  <2>1. m.kind = "encryptedEnvelope"
    BY <1>11 DEF RecentInv, TypeOK, PhoneEnvelope
  <2>2. PhoneStep /\ UNCHANGED <<connected, inbox, lastApplied, phone>> /\ ToBridge(m)
    BY <1>11 DEF Repeat, phoneVars
  <2> QED
    BY <1>1, <1>2, <2>1, <2>2, SendLink
<1>12. CASE UNCHANGED vars
  <2>1. BridgeOnly /\ UNCHANGED <<inbox, nextEpoch, nextSeq, buffer, session, lastApplied>>
    BY <1>12 DEF vars, BridgeOnly, WireLoses, relayVars, transportVars, phoneVars
  <2> QED
    BY <1>1, <1>2, <2>1, QuietLink
<1> QED
  BY <1>3, <1>4, <1>5, <1>6, <1>7, <1>8, <1>9, <1>10, <1>11, <1>12 DEF Next

-----------------------------------------------------------------------------
(***************************************************************************)
(* The theorems about what the bridge sends.                               *)
(***************************************************************************)

(* RecentInv, from which the next two follow, is inductive. *)
THEOREM RecentInductive == Spec => []RecentInv
BY RecentInit, RecentStep, PTL DEF Spec

(* The relay's, the transport's and the phones' variables keep their types *)
(* whatever is sent, lost and repeated.                                    *)
THEOREM ChannelTypes == Spec => []TypeOK
<1>1. RecentInv => TypeOK
  BY DEF RecentInv
<1> QED
  BY <1>1, RecentInductive, PTL

(* The buffer is the unbroken end of what was queued, within both limits,  *)
(* for any limits and sizes.                                               *)
THEOREM BufferKept == Spec => []BufferIsRecent
<1>1. RecentInv => BufferIsRecent
  BY DEF RecentInv
<1> QED
  BY <1>1, RecentInductive, PTL

(* With ChannelInv and RecentInv, LinkInv is inductive: what is on its way *)
(* to the phone that is alone has been numbered, is in turn and complete.  *)
THEOREM LinkInductive == ASSUME Alone PROVE Spec => []LinkInv
<1>1. ChannelInv /\ RecentInv /\ LinkInv /\ [Next]_vars => LinkInv'
  BY LinkStep
<1> QED
  BY <1>1, LinkInit, ChannelInductive, RecentInductive, PTL DEF Spec

(* The phone that is alone in the session misses nothing of the buffer     *)
(* once the session is resumed, however often it has lost its socket.      *)
THEOREM NothingGoesMissing == ASSUME Alone PROVE Spec => []NothingMissing
<1>1. LinkInv => NothingMissing
  BY DEF LinkInv
<1> QED
  BY <1>1, LinkInductive, PTL

(* It applies the messages in their order and leaves out none that the     *)
(* bridge still has.                                                       *)
THEOREM AppliedInOrder == ASSUME Alone PROVE Spec => AppliesInOrder
<1>1. ChannelInv /\ RecentInv /\ LinkInv /\ [Next]_vars => [NoneLeftOut]_vars
  BY LinkStep
<1>2. Spec => [][NoneLeftOut]_vars
  BY <1>1, ChannelInductive, RecentInductive, LinkInductive, PTL DEF Spec
<1> QED
  BY <1>2 DEF AppliesInOrder, NoneLeftOut

-----------------------------------------------------------------------------
(***************************************************************************)
(* The channel of one phone implements MessageLog: the bridge queues, the  *)
(* phone reads, and every other step of either leaves the log as it is.    *)
(***************************************************************************)

(* Trimming moves the least number kept up, at most past the newest one.   *)
LEMMA LogQueues ==
  ASSUME RecentInv, NEW size \in Sizes, QueueOutbound(size), UNCHANGED lastApplied
  PROVE  Log!Queue
<1> DEFINE b == Append(buffer, [seq |-> nextSeq, size |-> size])
<1>1. nextSeq' = nextSeq + 1 /\ buffer' = Trim(b)
  BY DEF QueueOutbound
<1>2. buffer \in Seq(Entry) /\ nextSeq \in Nat
  BY DEF RecentInv, TypeOK, TransportTypeOK
<1>3. b \in Seq(Entry) /\ Len(b) = Len(buffer) + 1 /\ Len(buffer) \in Nat
  BY <1>2 DEF Entry
<1> HIDE DEF b
<1>4. PICK k \in 0..Len(b) : Len(buffer') = Len(b) - k
  BY <1>1, <1>3, TrimDropsOldest
<1>5. nextSeq' - Len(buffer') = (nextSeq - Len(buffer)) + k
  BY <1>1, <1>2, <1>3, <1>4
<1>6. nextSeq' - 1 = (nextSeq - 1) + 1
  BY <1>1, <1>2
<1>7. nextSeq' - Len(buffer') \in (nextSeq - Len(buffer))..((nextSeq' - 1) + 1)
  BY <1>1, <1>2, <1>3, <1>4, <1>5
<1> QED
  BY <1>6, <1>7 DEF Log!Queue

(* What a phone passes over is behind the least number kept. *)
LEMMA LogReads ==
  ASSUME RecentInv, LinkInv, NoneLeftOut, NEW p \in Phones, Apply(p)
  PROVE  Log!Read(p) \/ UNCHANGED Log!log
<1>1. /\ PhoneStep /\ inbox[p] # <<>>
      /\ UNCHANGED <<nextSeq, buffer>>
  BY DEF Apply, PhoneStep
<1>2. PICK m : /\ m = Head(inbox[p]) /\ OwnEnvelope(p, m)
               /\ lastApplied' = [lastApplied EXCEPT ![p] =
                    IF m.seq > lastApplied[p] THEN m.seq ELSE lastApplied[p]]
  BY DEF Apply
<1>3. /\ buffer \in Seq(Entry) /\ Len(buffer) \in Nat /\ nextSeq \in Nat
      /\ inbox \in [Phones -> Seq(BridgeFrame)]
      /\ lastApplied \in [Phones -> Nat]
  BY DEF RecentInv, TypeOK, TransportTypeOK
<1>4. 1 \in DOMAIN inbox[p] /\ inbox[p][1] = m /\ m \in BridgeFrame
  <2>1. inbox[p] \in Seq(BridgeFrame)
    BY <1>3
  <2> QED
    BY <1>1, <1>2, <2>1
<1>5. m.seq \in Nat /\ m.seq < nextSeq
  <2>1. m.seq \in Nat
    BY <1>2, <1>4, BridgeFrameKinds DEF OwnEnvelope, BridgeEnvelope
  <2> QED
    BY <1>2, <1>4, <2>1 DEF LinkInv, PastInv, OwnEnvelope
<1>6. CASE m.seq > lastApplied[p]
  <2>1. lastApplied' = [lastApplied EXCEPT ![p] = m.seq] /\ lastApplied[p] \in Nat
    BY <1>2, <1>3, <1>6
  <2>2. m.seq \in (lastApplied[p] + 1)..(nextSeq - 1)
    BY <1>3, <1>5, <1>6, <2>1
  <2>3. ASSUME NEW k \in (lastApplied[p] + 1)..(m.seq - 1)
        PROVE  k < nextSeq - Len(buffer)
    <3>1. ~Buffered(k) /\ k \in Nat /\ k < nextSeq
      BY <1>3, <1>5, <2>1 DEF NoneLeftOut
    <3>2. SUFFICES ASSUME k >= nextSeq - Len(buffer)
                   PROVE  FALSE
      BY <1>3, <3>1
    <3> DEFINE j == k - (nextSeq - Len(buffer)) + 1
    <3>3. j \in DOMAIN buffer
      BY <1>3, <3>1, <3>2
    <3>4. buffer[j].seq = nextSeq - Len(buffer) + j - 1
      BY <3>3 DEF RecentInv, BufferIsRecent
    <3>5. buffer[j].seq = k
      BY <1>3, <3>1, <3>4
    <3> QED
      BY <3>1, <3>3, <3>5 DEF Buffered
  <2> QED
    BY <1>1, <2>1, <2>2, <2>3 DEF Log!Read
<1>7. CASE ~(m.seq > lastApplied[p])
  <2>1. lastApplied' = lastApplied
    BY <1>2, <1>3, <1>7
  <2> QED
    BY <1>1, <2>1 DEF Log!log
<1> QED
  BY <1>6, <1>7

LEMMA LogStep ==
  ASSUME RecentInv, LinkInv, NoneLeftOut, [Next]_vars
  PROVE  [Log!LogNext]_(Log!log)
<1>1. UNCHANGED <<nextSeq, buffer, lastApplied>> => UNCHANGED Log!log
  BY DEF Log!log
<1>2. CASE Bridge /\ UNCHANGED phoneVars
  <2>1. UNCHANGED lastApplied
    BY <1>2 DEF phoneVars
  <2>2. CASE ReceiveFrame
    <3>1. HandleIncoming(Head(toBridge))
      BY <2>2 DEF ReceiveFrame
    <3>2. UNCHANGED <<nextSeq, buffer>>
      BY <3>1 DEF HandleIncoming, HandleClientHello, HandleClientAuth, HandleResumeState,
                  HandleEncryptedEnvelope, Refuse, transportVars
    <3> QED
      BY <1>1, <2>1, <3>2
  <2>3. CASE \E size \in Sizes : QueueOutbound(size)
    BY <2>1, <2>3, LogQueues DEF Log!LogNext
  <2>4. CASE ExpirePairing
    BY <1>1, <2>1, <2>4 DEF ExpirePairing
  <2> QED
    BY <1>2, <2>2, <2>3, <2>4 DEF Bridge
<1>3. ASSUME NEW p \in Phones, NEW mode \in Modes, Connect(p, mode)
      PROVE  UNCHANGED Log!log
  BY <1>1, <1>3 DEF Connect, PhoneStep
<1>4. ASSUME NEW p \in Phones, Disconnect(p) \/ Authenticate(p) \/ Resume(p) \/ Ignore(p)
      PROVE  UNCHANGED Log!log
  BY <1>1, <1>4 DEF Disconnect, Authenticate, Resume, Ignore, PhoneStep, phoneVars
<1>5. ASSUME NEW p \in Phones, Apply(p)
      PROVE  [Log!LogNext]_(Log!log)
  BY <1>5, LogReads DEF Log!LogNext
<1>6. ASSUME NEW p \in Phones, SendEnvelope(p)
      PROVE  UNCHANGED Log!log
  BY <1>1, <1>6 DEF SendEnvelope, PhoneStep
<1>7. ASSUME NEW m \in aired, Repeat(m)
      PROVE  UNCHANGED Log!log
  BY <1>1, <1>7 DEF Repeat, PhoneStep, phoneVars
<1>8. CASE UNCHANGED vars
  BY <1>1, <1>8 DEF vars, transportVars, phoneVars
<1> QED
  BY <1>2, <1>3, <1>4, <1>5, <1>6, <1>7, <1>8 DEF Next

(***************************************************************************)
(* With one phone the bridge's channel implements the log, for any limits  *)
(* of the buffer, sizes of messages and number of connections.             *)
(***************************************************************************)
THEOREM LogImplemented == ASSUME Alone PROVE Spec => ImplementsLog
<1>1. Init => Log!EmptyLog
  <2> SUFFICES ASSUME Init PROVE Log!EmptyLog
    OBVIOUS
  <2>1. /\ nextSeq = 1 /\ buffer = <<>> /\ Len(buffer) = 0
        /\ lastApplied = [p \in Phones |-> 0]
    BY DEF Init, NewTransport
  <2> QED
    BY <2>1 DEF Log!EmptyLog
<1>2. ChannelInv /\ RecentInv /\ LinkInv /\ [Next]_vars => [Log!LogNext]_(Log!log)
  BY LinkStep, LogStep
<1> QED
  BY <1>1, <1>2, ChannelInductive, RecentInductive, LinkInductive, PTL
     DEF Spec, ImplementsLog, Log!LogSpec

=============================================================================
