------------------------ MODULE BridgeServiceProofs ------------------------
(***************************************************************************)
(* Proofs about the bridge service, for every value of its constants: any  *)
(* number of requests, items, decisions, messages of the phone and runs.   *)
(***************************************************************************)
EXTENDS BridgeServiceProperties, TLAPS, SequenceTheorems

-----------------------------------------------------------------------------
(***************************************************************************)
(* Type correctness.                                                       *)
(***************************************************************************)
Inbound == Message \cup Response
Outbound == Answer \cup Forward

TurnTypeOK ==
  /\ codex \in [WireIds -> {"idle", "open", "closed"}]
  /\ itemState \in [Items -> {"new", "started", "reported", "completed"}]
  /\ turn \in {"idle", "active", "completed"}

RuntimeTypeOK ==
  /\ handshake \in {"cold", "warm"}
  /\ forwarded \subseteq Asks
  /\ relayed \subseteq Asks

LoopTypeOK ==
  /\ pc \in {"down", "starting", "top", "phone", "codex"}
  /\ todo \in Seq(Effect)
  /\ RuntimeTypeOK
  /\ run \in 0..MaxRuns

LogTypeOK ==
  /\ stateFile \in [status : {"absent", "starting", "running", "completed"},
                    pending : SUBSET RequestIds]
  /\ approvalsLog \subseteq RequestIds
  /\ decisionsLog \in Seq(Answer)
  /\ sent \in Seq(Answer)

PhoneTypeOK ==
  /\ toBridge \in Seq(PhoneMessage)
  /\ toPhone \in Seq(Notice)
  /\ asked \in Seq(PhoneMessage)
  /\ reply \in [Asks -> Answers \cup {Unanswered}]
  /\ view \subseteq RequestIds

CodexTypes == TurnTypeOK /\ PipeTypeOK(Inbound, Outbound)

TypeInv == BrokerTypeOK /\ CodexTypes /\ LoopTypeOK /\ LogTypeOK /\ PhoneTypeOK

LEMMA TypeInvIsTypeOK == TypeInv <=> TypeOK
  BY DEF TypeInv, TypeOK, CodexTypes, TurnTypeOK, LoopTypeOK, RuntimeTypeOK, LogTypeOK,
         PhoneTypeOK, Inbound,
         Outbound

(* The broker's handlers keep the types of its three variables. *)
LEMMA BrokerTypes ==
  ASSUME BrokerTypeOK,
         \/ UNCHANGED brokerVars
         \/ ResetBroker
         \/ \E m \in Message : HandleMessage(m)
         \/ \E r \in RequestIds : SendDecision(r) \/ SendInvalidDecision(r)
  PROVE  BrokerTypeOK'
<1> USE NormalizedAssumption, NoWireAssumption DEF BrokerTypeOK
<1>1. CASE UNCHANGED brokerVars
  BY <1>1 DEF brokerVars
<1>2. CASE ResetBroker
  BY <1>2 DEF ResetBroker
<1>3. ASSUME NEW m \in Message, HandleMessage(m)
      PROVE  BrokerTypeOK'
  <2> USE DEF Message, ApprovalMsg, ResolvedMsg, StartedMsg, CompletedMsg, TurnMsg
  <2>1. CASE HandleApproval(m)
    BY <1>3, <2>1 DEF HandleApproval
  <2>2. CASE HandleItemStarted(m)
    BY <1>3, <2>2 DEF HandleItemStarted
  <2>3. CASE HandleItemCompleted(m)
    BY <1>3, <2>3 DEF HandleItemCompleted, CleanupForItem
  <2>4. CASE HandleResolved(m)
    BY <1>3, <2>4 DEF HandleResolved
  <2>5. CASE HandleTurnCompleted(m)
    BY <2>5 DEF HandleTurnCompleted, brokerVars
  <2> QED
    BY <1>3, <2>1, <2>2, <2>3, <2>4, <2>5 DEF HandleMessage
<1>4. ASSUME NEW r \in RequestIds, SendDecision(r) \/ SendInvalidDecision(r)
      PROVE  BrokerTypeOK'
  BY <1>4 DEF SendDecision, SendInvalidDecision
<1> QED
  BY <1>1, <1>2, <1>3, <1>4

(* What the App Server writes. *)
LEMMA InboundTypes ==
  /\ \A w \in WireIds : [method |-> "requestApproval", wire |-> w] \in Message
  /\ \A w \in WireIds : [method |-> "serverRequest/resolved", wire |-> w] \in Message
  /\ \A i \in Items : [method |-> "item/started", item |-> i] \in Message
  /\ \A i \in Items : \A s \in {"inProgress", "completed"} :
       [method |-> "item/completed", item |-> i, status |-> s] \in Message
  /\ [method |-> "turn/completed"] \in Message
  BY DEF Message, ApprovalMsg, ResolvedMsg, StartedMsg, CompletedMsg, TurnMsg

LEMMA EmitTypes ==
  ASSUME PipeTypeOK(Inbound, Outbound), NEW m \in Inbound, Emit(m),
         UNCHANGED <<running, buffered>>,
         outbound' \in Seq(Outbound)
  PROVE  PipeTypeOK(Inbound, Outbound)'
<1>1. inbound' \in Seq(Inbound) /\ Len(inbound') = Len(inbound) + 1
  BY DEF PipeTypeOK, Emit
<1>2. buffered' \in 0..Len(inbound')
  BY <1>1 DEF PipeTypeOK
<1> QED
  BY <1>1, <1>2 DEF PipeTypeOK

LEMMA ClosePipesTypes ==
  ASSUME ClosePipes
  PROVE  PipeTypeOK(Inbound, Outbound)'
<1>1. inbound' \in Seq(Inbound) /\ Len(inbound') = 0
  BY DEF ClosePipes
<1>2. buffered' \in 0..Len(inbound')
  BY <1>1 DEF ClosePipes
<1>3. running' \in BOOLEAN
  BY DEF ClosePipes
<1>4. outbound' \in Seq(Outbound)
  BY DEF ClosePipes
<1> QED
  BY <1>1, <1>2, <1>3, <1>4 DEF PipeTypeOK

(* The line the App Server takes. *)
LEMMA OutboundTaken ==
  ASSUME CodexTypes, outbound # <<>>
  PROVE  /\ Head(outbound) \in Outbound /\ Tail(outbound) \in Seq(Outbound)
         /\ Head(outbound) \in Answer => Head(outbound).wire \in WireIds
         /\ Head(outbound) \in Forward => Head(outbound).id \in Asks
<1>1. Head(outbound) \in Outbound /\ Tail(outbound) \in Seq(Outbound)
  BY HeadTailProperties DEF CodexTypes, PipeTypeOK
<1> QED
  BY <1>1 DEF Answer, Forward

LEMMA CodexStepTypes ==
  ASSUME CodexTypes, CodexStep \/ TakeForward
  PROVE  CodexTypes'
<1> USE DEF CodexTypes
<1>1. ASSUME NEW i \in Items, StartItem(i)
      PROVE  CodexTypes'
  BY <1>1, EmitTypes, InboundTypes DEF StartItem, TurnTypeOK, Inbound, PipeTypeOK
<1>2. ASSUME NEW i \in Items, ReportItem(i)
      PROVE  CodexTypes'
  BY <1>2, EmitTypes, InboundTypes DEF ReportItem, TurnTypeOK, Inbound, PipeTypeOK
<1>3. ASSUME NEW i \in Items, CompleteItem(i)
      PROVE  CodexTypes'
  BY <1>3, EmitTypes, InboundTypes DEF CompleteItem, TurnTypeOK, Inbound, PipeTypeOK
<1>4. ASSUME NEW w \in WireIds, RequestApproval(w) \/ WithdrawRequest(w)
      PROVE  CodexTypes'
  BY <1>4, EmitTypes, InboundTypes
     DEF RequestApproval, WithdrawRequest, TurnTypeOK, Inbound, PipeTypeOK
<1>5. CASE TakeDecision
  <2>1. Head(outbound).wire \in WireIds /\ Tail(outbound) \in Seq(Outbound)
    BY <1>5, OutboundTaken DEF TakeDecision
  <2>2. PipeTypeOK(Inbound, Outbound)'
    BY <1>5, <2>1, EmitTypes, InboundTypes DEF TakeDecision, Inbound
  <2> QED
    BY <1>5, <2>2 DEF TakeDecision, TurnTypeOK
<1>6. CASE IgnoreDecision
  BY <1>6, OutboundTaken DEF IgnoreDecision, turnVars, TurnTypeOK, PipeTypeOK
<1>7. CASE CompleteTurn
  BY <1>7, EmitTypes, InboundTypes DEF CompleteTurn, TurnTypeOK, Inbound, PipeTypeOK
<1>8. CASE Die
  BY <1>8 DEF Die, turnVars, TurnTypeOK, PipeTypeOK
<1>9. CASE TakeForward
  <2>1. /\ Tail(outbound) \in Seq(Outbound) /\ Head(outbound).id \in Asks
        /\ UNCHANGED <<running, buffered>> /\ outbound' = Tail(outbound)
    BY <1>9, OutboundTaken DEF TakeForward
  <2>2. CASE UNCHANGED inbound
    BY <1>9, <2>1, <2>2 DEF TakeForward, turnVars, TurnTypeOK, PipeTypeOK
  <2>3. ASSUME NEW o \in {"result", "error"},
               Emit([method |-> "response", id |-> Head(outbound).id, outcome |-> o])
        PROVE  CodexTypes'
    <3>1. [method |-> "response", id |-> Head(outbound).id, outcome |-> o] \in Inbound
      BY <2>1 DEF Inbound, Response
    <3>2. PipeTypeOK(Inbound, Outbound)'
      BY <2>1, <2>3, <3>1, EmitTypes
    <3> QED
      BY <1>9, <3>2 DEF TakeForward, turnVars, TurnTypeOK
  <2> QED
    BY <1>9, <2>2, <2>3 DEF TakeForward
<1> QED
  BY <1>1, <1>2, <1>3, <1>4, <1>5, <1>6, <1>7, <1>8, <1>9 DEF CodexStep

LEMMA ResetTypes ==
  ASSUME ResetTurn, ClosePipes
  PROVE  CodexTypes'
  BY ClosePipesTypes DEF CodexTypes, ResetTurn, TurnTypeOK

-----------------------------------------------------------------------------
(***************************************************************************)
(* Messages of the phone, and what the handlers return.                    *)
(***************************************************************************)
LEMMA PhoneMessageShape ==
  ASSUME NEW m \in PhoneMessage
  PROVE  /\ m.id \in Asks /\ m.id \in 1..MaxAsks
         /\ m.method = "bridge/respondApproval" =>
              m.request \in RequestIds /\ m.decision \in Offered
  BY DEF PhoneMessage, Asks

LEMMA EffectShape ==
  ASSUME NEW e \in Effect
  PROVE  /\ e.to = "codex" => e.line \in Outbound
         /\ e.to = "audit" => e.approvals \subseteq RequestIds /\ e.decisions \in Seq(Answer)
         /\ e.to = "phone" => e.notice \in Notice
<1>1. /\ e.to = "codex" => e.line \in Answer \cup Forward
      /\ e.to = "audit" => /\ e.approvals \subseteq RequestIds
                           /\ e.decisions \in {<<>>} \cup {<<a>> : a \in Answer}
      /\ e.to = "phone" => e.notice \in Notice
  BY DEF Effect
<1>2. <<>> \in Seq(Answer) /\ \A a \in Answer : <<a>> \in Seq(Answer)
  OBVIOUS
<1>3. \A d \in {<<>>} \cup {<<a>> : a \in Answer} : d \in Seq(Answer)
  BY <1>2
<1> QED
  BY <1>1, <1>3 DEF Outbound

LEMMA EffectTypes ==
  /\ \A x \in Outbound : [to |-> "codex", line |-> x] \in Effect
  /\ \A n \in Notice : [to |-> "phone", notice |-> n] \in Effect
  /\ \A s \in SUBSET RequestIds : [to |-> "audit", approvals |-> s, decisions |-> <<>>] \in Effect
  /\ \A a \in Answer : [to |-> "audit", approvals |-> {}, decisions |-> <<a>>] \in Effect
  BY DEF Effect, Outbound

LEMMA NoticeTypes ==
  ASSUME NEW id \in 0..MaxAsks, NEW p
  PROVE  /\ Snapshot(id, p) \in Notice
         /\ Snapshot(id, p).id = id /\ Snapshot(id, p).says = "snapshot"
         /\ Snapshot(id, p).pending = PendingIn(p)
  BY DEF Snapshot, Notice, PendingIn, Answers

LEMMA ReplyTypes ==
  ASSUME NEW m \in PhoneMessage, NEW says \in Answers
  PROVE  /\ Reply(m, says) \in Notice
         /\ Reply(m, says).id = m.id /\ Reply(m, says).says = says
  BY PhoneMessageShape, BridgeBoundsAssumption DEF Reply, Notice

(* The last element joins the list. *)
LEMMA JoinsLast ==
  ASSUME NEW S, NEW s \in Seq(S), NEW e \in S, NEW t \in Seq(S),
         Len(t) = Len(s) + 1, t[Len(s) + 1] = e, \A k \in 1..Len(s) : t[k] = s[k]
  PROVE  s \o <<e>> = t
<1>1. s \o <<e>> = Append(s, e)
  BY AppendIsConcat
<1>2. /\ Append(s, e) \in Seq(S) /\ Len(Append(s, e)) = Len(s) + 1
      /\ \A k \in 1..(Len(s) + 1) : Append(s, e)[k] = t[k]
  BY AppendProperties
<1> QED
  BY <1>1, <1>2, SeqEqual

LEMMA Lists ==
  ASSUME NEW S, NEW a \in S, NEW b \in S, NEW c \in S, NEW d \in S
  PROVE  /\ <<a>> \o <<b>> = <<a, b>>
         /\ <<a>> \o <<b>> \o <<c>> \o <<d>> = <<a, b, c, d>>
<1>1. <<a>> \o <<b>> = <<a, b>>
  <2> DEFINE s == <<a>>
             t == <<a, b>>
  <2>1. s \in Seq(S) /\ t \in Seq(S)
    OBVIOUS
  <2>2. Len(t) = Len(s) + 1 /\ t[Len(s) + 1] = b
    OBVIOUS
  <2>3. \A k \in 1..Len(s) : t[k] = s[k]
    OBVIOUS
  <2> HIDE DEF s, t
  <2>4. s \o <<b>> = t
    BY <2>1, <2>2, <2>3, JoinsLast
  <2> QED
    BY <2>4 DEF s, t
<1>2. <<a, b>> \o <<c>> = <<a, b, c>>
  <2> DEFINE s == <<a, b>>
             t == <<a, b, c>>
  <2>1. s \in Seq(S) /\ t \in Seq(S)
    OBVIOUS
  <2>2. Len(t) = Len(s) + 1 /\ t[Len(s) + 1] = c
    OBVIOUS
  <2>3. \A k \in 1..Len(s) : t[k] = s[k]
    OBVIOUS
  <2> HIDE DEF s, t
  <2>4. s \o <<c>> = t
    BY <2>1, <2>2, <2>3, JoinsLast
  <2> QED
    BY <2>4 DEF s, t
<1>3. <<a, b, c>> \o <<d>> = <<a, b, c, d>>
  <2> DEFINE s == <<a, b, c>>
             t == <<a, b, c, d>>
  <2>1. s \in Seq(S) /\ t \in Seq(S)
    OBVIOUS
  <2>2. Len(t) = Len(s) + 1 /\ t[Len(s) + 1] = d
    OBVIOUS
  <2>3. \A k \in 1..Len(s) : t[k] = s[k]
    OBVIOUS
  <2> HIDE DEF s, t
  <2>4. s \o <<d>> = t
    BY <2>1, <2>2, <2>3, JoinsLast
  <2> QED
    BY <2>4 DEF s, t
<1> QED
  BY <1>1, <1>2, <1>3

(* What a message of the App Server gives the phone, and what a decision   *)
(* does: the answer goes out before anybody is told.                       *)
EventEffects(approvals, p) ==
  <<[to |-> "audit", approvals |-> approvals, decisions |-> <<>>],
    [to |-> "phone", notice |-> Snapshot(0, p)]>>

DecisionList(m, answer, after) ==
  <<[to |-> "codex", line |-> answer],
    [to |-> "audit", approvals |-> {}, decisions |-> <<answer>>],
    [to |-> "phone", notice |-> Reply(m, "accepted")],
    [to |-> "phone", notice |-> Snapshot(0, after)]>>

LEMMA EventList ==
  ASSUME NEW approvals \in SUBSET RequestIds, NEW p
  PROVE  /\ Audit(approvals, <<>>) \o Phone(Snapshot(0, p)) = EventEffects(approvals, p)
         /\ EventEffects(approvals, p) \in Seq(Effect)
<1>1. 0 \in 0..MaxAsks
  BY BridgeBoundsAssumption
<1>2. [to |-> "phone", notice |-> Snapshot(0, p)] \in Effect
  BY <1>1, NoticeTypes, EffectTypes
<1>3. [to |-> "audit", approvals |-> approvals, decisions |-> <<>>] \in Effect
  BY EffectTypes
<1> QED
  BY <1>2, <1>3, Lists DEF Audit, Phone, EventEffects

LEMMA DecisionEffectsList ==
  ASSUME NEW m \in PhoneMessage, NEW answer \in Answer, NEW after
  PROVE  /\ DecisionEffects(m, answer, after) = DecisionList(m, answer, after)
         /\ DecisionList(m, answer, after) \in Seq(Effect)
<1>1. 0 \in 0..MaxAsks /\ "accepted" \in Answers /\ answer \in Outbound
  BY BridgeBoundsAssumption DEF Answers, Outbound
<1>2. /\ [to |-> "phone", notice |-> Snapshot(0, after)] \in Effect
      /\ [to |-> "phone", notice |-> Reply(m, "accepted")] \in Effect
  BY <1>1, NoticeTypes, ReplyTypes, EffectTypes
<1>3. /\ [to |-> "codex", line |-> answer] \in Effect
      /\ [to |-> "audit", approvals |-> {}, decisions |-> <<answer>>] \in Effect
  BY <1>1, EffectTypes
<1> DEFINE a == [to |-> "codex", line |-> answer]
           b == [to |-> "audit", approvals |-> {}, decisions |-> <<answer>>]
           c == [to |-> "phone", notice |-> Reply(m, "accepted")]
           d == [to |-> "phone", notice |-> Snapshot(0, after)]
<1>4. /\ DecisionEffects(m, answer, after) = <<a>> \o <<b>> \o <<c>> \o <<d>>
      /\ DecisionList(m, answer, after) = <<a, b, c, d>>
  BY DEF Audit, Phone, Codex, DecisionEffects, DecisionList
<1>5. a \in Effect /\ b \in Effect /\ c \in Effect /\ d \in Effect
  BY <1>2, <1>3
<1> HIDE DEF a, b, c, d
<1>6. <<a>> \o <<b>> \o <<c>> \o <<d>> = <<a, b, c, d>>
  BY <1>5, Lists
<1>7. <<a, b, c, d>> \in Seq(Effect)
  BY <1>5
<1> QED
  BY <1>4, <1>6, <1>7

LEMMA HandlePhoneTypes ==
  ASSUME TypeInv, NEW m \in PhoneMessage, HandlePhoneMessage(m)
  PROVE  BrokerTypeOK' /\ todo' \in Seq(Effect) /\ RuntimeTypeOK'
<1> USE DEF TypeInv, LoopTypeOK, RuntimeTypeOK
<1>1. CASE PhoneInitialize(m)
  <2>1. BrokerTypeOK' /\ RuntimeTypeOK'
    BY <1>1, BrokerTypes, PhoneMessageShape DEF PhoneInitialize
  <2>2. m \in Outbound /\ "bridgeManaged" \in Answers
    BY <1>1 DEF PhoneInitialize, PhoneMessage, Outbound, Forward, Answers
  <2>3. /\ [to |-> "codex", line |-> m] \in Effect
        /\ [to |-> "phone", notice |-> Reply(m, "bridgeManaged")] \in Effect
    BY <2>2, EffectTypes, ReplyTypes
  <2>4. todo' = Phone(Reply(m, "bridgeManaged")) \/ todo' = Codex(m)
    BY <1>1 DEF PhoneInitialize
  <2>5. \A e \in Effect : <<e>> \in Seq(Effect)
    OBVIOUS
  <2>6. Phone(Reply(m, "bridgeManaged")) \in Seq(Effect) /\ Codex(m) \in Seq(Effect)
    BY <2>3, <2>5 DEF Phone, Codex
  <2> QED
    BY <2>1, <2>4, <2>6
<1>2. CASE PhoneInitialized(m)
  <2>1. BrokerTypeOK' /\ RuntimeTypeOK'
    BY <1>2, BrokerTypes DEF PhoneInitialized, runtimeVars
  <2>2. m \in Outbound
    BY <1>2 DEF PhoneInitialized, PhoneMessage, Outbound, Forward
  <2>3. [to |-> "codex", line |-> m] \in Effect
    BY <2>2, EffectTypes
  <2> QED
    BY <1>2, <2>1, <2>3 DEF PhoneInitialized, Codex
<1>3. CASE PhoneListsPending(m)
  <2>1. BrokerTypeOK' /\ RuntimeTypeOK'
    BY <1>3, BrokerTypes DEF PhoneListsPending, runtimeVars
  <2>2. m.id \in 0..MaxAsks
    BY PhoneMessageShape, BridgeBoundsAssumption
  <2>3. [to |-> "phone", notice |-> Snapshot(m.id, pending)] \in Effect
    BY <2>2, EffectTypes, NoticeTypes
  <2> QED
    BY <1>3, <2>1, <2>3 DEF PhoneListsPending, Phone
<1>4. CASE PhoneDecides(m)
  <2>1. BrokerTypeOK' /\ RuntimeTypeOK'
    BY <1>4, BrokerTypes, PhoneMessageShape DEF PhoneDecides, runtimeVars
  <2>2. [wire |-> pending[m.request], decision |-> m.decision] \in Answer
    BY <1>4, PhoneMessageShape DEF PhoneDecides, SendDecision, BrokerTypeOK, Answer
  <2> QED
    BY <1>4, <2>1, <2>2, DecisionEffectsList DEF PhoneDecides
<1>5. CASE PhoneDecidesWrongly(m)
  <2>1. BrokerTypeOK' /\ RuntimeTypeOK'
    BY <1>5, BrokerTypes, PhoneMessageShape DEF PhoneDecidesWrongly, runtimeVars
  <2>2. [to |-> "phone", notice |-> Reply(m, "error")] \in Effect
    BY EffectTypes, ReplyTypes DEF Answers
  <2> QED
    BY <1>5, <2>1, <2>2 DEF PhoneDecidesWrongly, Phone
<1>6. CASE PhoneAsksOther(m)
  <2>1. BrokerTypeOK' /\ RuntimeTypeOK'
    BY <1>6, BrokerTypes DEF PhoneAsksOther, runtimeVars
  <2>2. [to |-> "phone", notice |-> Reply(m, "error")] \in Effect
    BY EffectTypes, ReplyTypes DEF Answers
  <2> QED
    BY <1>6, <2>1, <2>2 DEF PhoneAsksOther, Phone
<1> QED
  BY <1>1, <1>2, <1>3, <1>4, <1>5, <1>6 DEF HandlePhoneMessage

LEMMA ApprovalTypes ==
  ASSUME NEW m \in Message
  PROVE  ApprovalsOf(m) \subseteq RequestIds
  BY NormalizedAssumption
     DEF ApprovalsOf, Message, ApprovalMsg, ResolvedMsg, StartedMsg, CompletedMsg, TurnMsg

LEMMA HandleCodexTypes ==
  ASSUME TypeInv, NEW m \in Inbound, HandleCodexMessage(m)
  PROVE  BrokerTypeOK' /\ todo' \in Seq(Effect) /\ RuntimeTypeOK'
<1> USE DEF TypeInv, LoopTypeOK, RuntimeTypeOK
<1>1. CASE m \in Response /\ TrackCodexHandshake(m) /\ todo' = <<>> /\ UNCHANGED brokerVars
  <2>1. BrokerTypeOK' /\ todo' \in Seq(Effect)
    BY <1>1, BrokerTypes
  <2> QED
    BY <1>1, <2>1 DEF TrackCodexHandshake, runtimeVars
<1>2. CASE /\ m \in Message
           /\ HandleMessage(m)
           /\ todo' = IF Emits(m)
                        THEN Audit(ApprovalsOf(m), <<>>) \o Phone(Snapshot(0, pending'))
                        ELSE <<>>
           /\ UNCHANGED runtimeVars
  <2>1. BrokerTypeOK' /\ RuntimeTypeOK'
    BY <1>2, BrokerTypes DEF runtimeVars
  <2>2. <<>> \in Seq(Effect)
    OBVIOUS
  <2> QED
    BY <1>2, <2>1, <2>2, EventList, ApprovalTypes
<1> QED
  BY <1>1, <1>2 DEF HandleCodexMessage

LEMMA EndRunTypes ==
  ASSUME TypeInv, EndRun,
         stateFile' \in [status : {"absent", "starting", "running", "completed"},
                         pending : SUBSET RequestIds]
  PROVE  TypeInv'
<1> USE DEF TypeInv, EndRun
<1>1. BrokerTypeOK' /\ CodexTypes'
  BY BrokerTypes, ResetTypes
<1>2. LoopTypeOK'
  BY DEF LoopTypeOK, RuntimeTypeOK
<1>3. LogTypeOK'
  BY DEF LogTypeOK
<1>4. PhoneTypeOK'
  <2>1. toBridge' \in Seq(PhoneMessage) /\ toPhone' \in Seq(Notice) /\ asked' \in Seq(PhoneMessage)
    OBVIOUS
  <2>2. reply' \in [Asks -> Answers \cup {Unanswered}] /\ view' \subseteq RequestIds
    OBVIOUS
  <2> QED
    BY <2>1, <2>2 DEF PhoneTypeOK
<1> QED
  BY <1>1, <1>2, <1>3, <1>4

LEMMA WriteStateTypes ==
  ASSUME NEW s \in {"absent", "starting", "running", "completed"}, WriteState(s)
  PROVE  stateFile' \in [status : {"absent", "starting", "running", "completed"},
                         pending : SUBSET RequestIds]
  BY DEF WriteState, PendingIds, PendingIn

LEMMA TypeInit == Init => TypeInv
<1> SUFFICES ASSUME Init PROVE TypeInv
  OBVIOUS
<1> USE DEF Init
<1>1. BrokerTypeOK
  BY DEF NewBroker, BrokerTypeOK
<1>2. CodexTypes
  <2>1. inbound \in Seq(Inbound) /\ Len(inbound) = 0 /\ outbound \in Seq(Outbound)
    BY DEF PipesEmpty
  <2>2. buffered \in 0..Len(inbound)
    BY <2>1 DEF PipesEmpty
  <2>3. running \in BOOLEAN
    BY DEF PipesEmpty
  <2> QED
    BY <2>1, <2>2, <2>3 DEF NoTurn, CodexTypes, TurnTypeOK, PipeTypeOK
<1>3. LoopTypeOK
  <2>1. todo \in Seq(Effect)
    OBVIOUS
  <2> QED
    BY <2>1, BridgeBoundsAssumption DEF LoopTypeOK, RuntimeTypeOK
<1>4. LogTypeOK
  <2>1. decisionsLog \in Seq(Answer) /\ sent \in Seq(Answer)
    OBVIOUS
  <2> QED
    BY <2>1 DEF LogTypeOK
<1>5. PhoneTypeOK
  <2>1. toBridge \in Seq(PhoneMessage) /\ toPhone \in Seq(Notice) /\ asked \in Seq(PhoneMessage)
    OBVIOUS
  <2>2. reply \in [Asks -> Answers \cup {Unanswered}] /\ view \subseteq RequestIds
    OBVIOUS
  <2> QED
    BY <2>1, <2>2 DEF PhoneTypeOK
<1> QED
  BY <1>1, <1>2, <1>3, <1>4, <1>5 DEF TypeInv

(* The first of the effects. *)
LEMMA FirstEffect ==
  ASSUME TypeInv, todo # <<>>
  PROVE  /\ Head(todo) \in Effect /\ Tail(todo) \in Seq(Effect)
         /\ Head(todo).to = "codex" => Head(todo).line \in Outbound
         /\ Head(todo).to = "audit" => /\ Head(todo).approvals \subseteq RequestIds
                                       /\ Head(todo).decisions \in Seq(Answer)
         /\ Head(todo).to = "phone" => Head(todo).notice \in Notice
<1>1. Head(todo) \in Effect /\ Tail(todo) \in Seq(Effect)
  BY HeadTailProperties DEF TypeInv, LoopTypeOK
<1> QED
  BY <1>1, EffectShape

LEMMA EffectStepTypes ==
  ASSUME TypeInv, SendToCodex \/ RecordEvents \/ QueueForPhone
  PROVE  TypeInv'
<1> USE DEF TypeInv
<1>1. CASE SendToCodex
  <2>1. Head(todo).line \in Outbound /\ Tail(todo) \in Seq(Effect)
    BY <1>1, FirstEffect DEF SendToCodex
  <2>2. CodexTypes'
    BY <1>1, <2>1 DEF SendToCodex, SendLine, CodexTypes, turnVars, TurnTypeOK, PipeTypeOK
  <2>3. LogTypeOK'
    BY <1>1 DEF SendToCodex, LogTypeOK
  <2>4. BrokerTypeOK' /\ LoopTypeOK' /\ PhoneTypeOK'
    BY <1>1, <2>1, BrokerTypes DEF SendToCodex, LoopTypeOK, RuntimeTypeOK, PhoneTypeOK,
                                   runtimeVars, phoneVars
  <2> QED
    BY <2>2, <2>3, <2>4
<1>2. CASE RecordEvents
  <2>1. /\ Head(todo).approvals \subseteq RequestIds /\ Tail(todo) \in Seq(Effect)
        /\ Head(todo).decisions \in Seq(Answer)
    BY <1>2, FirstEffect DEF RecordEvents
  <2>2. BrokerTypeOK' /\ CodexTypes'
    BY <1>2, BrokerTypes
       DEF RecordEvents, CodexTypes, codexVars, turnVars, pipeVars, TurnTypeOK, PipeTypeOK
  <2>3. decisionsLog' \in Seq(Answer)
    BY <1>2, <2>1, ConcatProperties DEF RecordEvents, LogTypeOK
  <2>4. LogTypeOK' /\ LoopTypeOK' /\ PhoneTypeOK'
    BY <1>2, <2>1, <2>3 DEF RecordEvents, LogTypeOK, LoopTypeOK, RuntimeTypeOK, PhoneTypeOK,
                            runtimeVars, phoneVars
  <2> QED
    BY <2>2, <2>4
<1>3. CASE QueueForPhone
  <2>1. Head(todo).notice \in Notice /\ Tail(todo) \in Seq(Effect)
    BY <1>3, FirstEffect DEF QueueForPhone
  <2>2. BrokerTypeOK' /\ CodexTypes'
    BY <1>3, BrokerTypes
       DEF QueueForPhone, CodexTypes, codexVars, turnVars, pipeVars, TurnTypeOK, PipeTypeOK
  <2>3. LogTypeOK' /\ LoopTypeOK' /\ PhoneTypeOK'
    BY <1>3, <2>1 DEF QueueForPhone, LogTypeOK, LoopTypeOK, RuntimeTypeOK, PhoneTypeOK,
                      runtimeVars, phoneVars,
                    logVars
  <2> QED
    BY <2>2, <2>3
<1> QED
  BY <1>1, <1>2, <1>3

LEMMA LoopStepTypes ==
  ASSUME TypeInv,
         \/ Start \/ Handshake \/ TakePhoneMessage \/ NoPhoneMessage
         \/ TakeCodexMessage \/ NoCodexMessage \/ WriteRunning
  PROVE  TypeInv'
<1> USE DEF TypeInv
<1>1. CASE Start
  BY <1>1, BrokerTypes, WriteStateTypes, BridgeBoundsAssumption
     DEF Start, CodexTypes, codexVars, turnVars, pipeVars, TurnTypeOK, PipeTypeOK, LoopTypeOK,
         RuntimeTypeOK,
         LogTypeOK, PhoneTypeOK, runtimeVars, phoneVars, logVars
<1>2. CASE Handshake
  <2>1. BrokerTypeOK'
    BY <1>2, BrokerTypes DEF Handshake
  <2>2. CodexTypes'
    BY <1>2 DEF Handshake, CodexTypes, TurnTypeOK, PipeTypeOK
  <2> QED
    BY <1>2, <2>1, <2>2
       DEF Handshake, LoopTypeOK, RuntimeTypeOK, LogTypeOK, PhoneTypeOK, runtimeVars, phoneVars,
           logVars
<1>3. CASE TakePhoneMessage
  <2>1. Head(toBridge) \in PhoneMessage /\ Tail(toBridge) \in Seq(PhoneMessage)
    BY <1>3, HeadTailProperties DEF TakePhoneMessage, PhoneTypeOK
  <2>2. BrokerTypeOK' /\ todo' \in Seq(Effect) /\ RuntimeTypeOK'
    BY <1>3, <2>1, HandlePhoneTypes DEF TakePhoneMessage
  <2>3. CodexTypes' /\ LogTypeOK'
    BY <1>3 DEF TakePhoneMessage, CodexTypes, codexVars, turnVars, pipeVars, TurnTypeOK,
                PipeTypeOK, LogTypeOK, logVars
  <2>4. LoopTypeOK' /\ PhoneTypeOK'
    BY <1>3, <2>1, <2>2 DEF TakePhoneMessage, LoopTypeOK, RuntimeTypeOK, PhoneTypeOK, phoneVars
  <2> QED
    BY <2>2, <2>3, <2>4
<1>4. CASE NoPhoneMessage \/ NoCodexMessage
  <2>1. UNCHANGED <<brokerVars, codexVars, runtimeVars, logVars, phoneVars, todo, stateFile,
                    toBridge, toPhone, run>> /\ pc' \in {"phone", "codex"}
    BY <1>4 DEF NoPhoneMessage, NoCodexMessage, ReadNothing, codexVars
  <2>2. BrokerTypeOK' /\ CodexTypes'
    BY <2>1, BrokerTypes DEF CodexTypes, codexVars, turnVars, pipeVars, TurnTypeOK, PipeTypeOK
  <2> QED
    BY <2>1, <2>2 DEF LoopTypeOK, RuntimeTypeOK, LogTypeOK, PhoneTypeOK, runtimeVars, phoneVars,
                      logVars
<1>5. CASE TakeCodexMessage
  <2>1. Head(inbound) \in Inbound /\ Tail(inbound) \in Seq(Inbound)
    BY <1>5, HeadTailProperties DEF TakeCodexMessage, ReadLine, CodexTypes, PipeTypeOK
  <2>2. BrokerTypeOK' /\ todo' \in Seq(Effect) /\ RuntimeTypeOK'
    BY <1>5, <2>1, HandleCodexTypes DEF TakeCodexMessage
  <2>3. CodexTypes'
    BY <1>5, <2>1
       DEF TakeCodexMessage, ReadLine, turnVars, CodexTypes, TurnTypeOK, PipeTypeOK
  <2>4. LoopTypeOK' /\ PhoneTypeOK' /\ LogTypeOK'
    BY <1>5, <2>2 DEF TakeCodexMessage, LoopTypeOK, RuntimeTypeOK, PhoneTypeOK, phoneVars,
                      LogTypeOK, logVars
  <2> QED
    BY <2>2, <2>3, <2>4
<1>6. CASE WriteRunning
  <2>1. BrokerTypeOK' /\ CodexTypes'
    BY <1>6, BrokerTypes DEF WriteRunning, CodexTypes, codexVars, turnVars, pipeVars, TurnTypeOK,
                             PipeTypeOK
  <2> QED
    BY <1>6, <2>1, WriteStateTypes
       DEF WriteRunning, LoopTypeOK, RuntimeTypeOK, LogTypeOK, PhoneTypeOK, runtimeVars,
           phoneVars, logVars
<1> QED
  BY <1>1, <1>2, <1>3, <1>4, <1>5, <1>6

LEMMA PhoneStepTypes ==
  ASSUME TypeInv, PhoneSends \/ PhoneReads
  PROVE  TypeInv'
<1> USE DEF TypeInv
<1>1. BrokerTypeOK' /\ CodexTypes' /\ LoopTypeOK' /\ LogTypeOK'
  BY BrokerTypes
     DEF PhoneSends, PhoneReads, CodexTypes, codexVars, turnVars, pipeVars, TurnTypeOK,
         PipeTypeOK, LoopTypeOK, RuntimeTypeOK, LogTypeOK, runtimeVars, logVars
<1>2. CASE PhoneSends
  BY <1>1, <1>2 DEF PhoneSends, PhoneTypeOK
<1>3. CASE PhoneReads
  <2>1. Head(toPhone) \in Notice /\ Tail(toPhone) \in Seq(Notice)
    BY <1>3, HeadTailProperties DEF PhoneReads, PhoneTypeOK
  <2>2. /\ Head(toPhone).id \in 0..MaxAsks /\ Head(toPhone).says \in Answers
        /\ Head(toPhone).pending \subseteq RequestIds
    BY <2>1 DEF Notice
  <2>3. reply' \in [Asks -> Answers \cup {Unanswered}] /\ view' \subseteq RequestIds
    BY <1>3, <2>2, BridgeBoundsAssumption DEF PhoneReads, PhoneTypeOK, Asks
  <2> QED
    BY <1>1, <1>3, <2>1, <2>3 DEF PhoneReads, PhoneTypeOK
<1> QED
  BY <1>2, <1>3

LEMMA TypeStep == TypeInv /\ [Next]_vars => TypeInv'
<1> SUFFICES ASSUME TypeInv, [Next]_vars PROVE TypeInv'
  OBVIOUS
<1>1. CASE Timeout \/ Fail \/ SendFails
  BY <1>1, EndRunTypes, WriteStateTypes DEF Timeout, Fail, SendFails, TypeInv, LogTypeOK
<1>2. CASE Environment
  <2>1. CodexTypes'
    BY <1>2, CodexStepTypes DEF Environment, TypeInv
  <2> QED
    BY <1>2, <2>1, BrokerTypes
       DEF Environment, BridgeUnchanged, TypeInv, LoopTypeOK, RuntimeTypeOK, LogTypeOK, PhoneTypeOK,
           runtimeVars, phoneVars, logVars
<1>3. CASE UNCHANGED vars
  <2>1. BrokerTypeOK' /\ CodexTypes'
    BY <1>3, BrokerTypes DEF TypeInv, vars, CodexTypes, codexVars, turnVars, pipeVars, TurnTypeOK,
                             PipeTypeOK
  <2> QED
    BY <1>3, <2>1
       DEF vars, TypeInv, LoopTypeOK, RuntimeTypeOK, LogTypeOK, PhoneTypeOK, runtimeVars,
           phoneVars, logVars
<1> QED
  BY <1>1, <1>2, <1>3, EffectStepTypes, LoopStepTypes, PhoneStepTypes DEF Next, ServiceStep

(***************************************************************************)
(* Every variable of the bridge, its files, the phone and the App Server   *)
(* keeps its type.                                                         *)
(***************************************************************************)
THEOREM BridgeTypes == Spec => []TypeOK
<1>1. Spec => []TypeInv
  BY TypeInit, TypeStep, PTL DEF Spec
<1> QED
  BY <1>1, TypeInvIsTypeOK, PTL


-----------------------------------------------------------------------------
(***************************************************************************)
(* The phases of the service, and the order of the phone's messages.       *)
(* Between runs, and until the handshake, nothing is under way; what is to *)
(* be done is done before the loop goes on.                                *)
(***************************************************************************)
NothingPending == \A r \in RequestIds : pending[r] = NoWire

Blank ==
  /\ ~running /\ inbound = <<>> /\ outbound = <<>>
  /\ \A w \in WireIds : codex[w] = "idle"
  /\ NothingPending
  /\ todo = <<>> /\ sent = <<>> /\ decisionsLog = <<>> /\ approvalsLog = {}
  /\ toBridge = <<>> /\ toPhone = <<>> /\ asked = <<>> /\ view = {}
  /\ reply = [a \in Asks |-> Unanswered]

Phases ==
  /\ ~InLoop => Blank
  /\ pc = "top" => todo = <<>>

(* What the bridge has not taken is the end of what the phone has sent. *)
Handled == Len(asked) - Len(toBridge)

InOrder ==
  /\ Len(toBridge) <= Len(asked)
  /\ \A a \in DOMAIN asked : asked[a].id = a
  /\ \A k \in DOMAIN toBridge : toBridge[k] = asked[Handled + k]

(* What is pending is filed under its own id. *)
Filed == \A r \in RequestIds : pending[r] # NoWire => Normalized[pending[r]] = r

BaseInv == TypeInv /\ Phases /\ InOrder /\ Filed

LEMMA InitBlank ==
  ASSUME Init
  PROVE  Blank /\ pc = "down"
  BY DEF Init, Blank, NewBroker, NoTurn, PipesEmpty, NothingPending

LEMMA EndRunBlank ==
  ASSUME EndRun
  PROVE  Blank' /\ pc' = "down"
  BY DEF EndRun, Blank, ResetBroker, ResetTurn, ClosePipes, NothingPending

(* The rest of a sequence, and a sequence with one element more. *)
LEMMA Rest ==
  ASSUME NEW S, NEW s \in Seq(S), s # <<>>
  PROVE  /\ Head(s) = s[1] /\ Head(s) \in S /\ 1 \in DOMAIN s
         /\ Tail(s) \in Seq(S) /\ Len(Tail(s)) = Len(s) - 1 /\ Len(s) \in Nat \ {0}
         /\ \A k \in DOMAIN s : k \in Nat \ {0} /\ k <= Len(s)
         /\ \A k \in DOMAIN Tail(s) :
              k \in Nat \ {0} /\ k + 1 \in DOMAIN s /\ Tail(s)[k] = s[k + 1]
         /\ \A k \in DOMAIN s : k # 1 => k - 1 \in DOMAIN Tail(s) /\ Tail(s)[k - 1] = s[k]
  OBVIOUS

LEMMA OneMore ==
  ASSUME NEW S, NEW s \in Seq(S), NEW e \in S
  PROVE  /\ Len(s) \in Nat /\ Len(Append(s, e)) = Len(s) + 1
         /\ Len(s) + 1 \in DOMAIN Append(s, e) /\ Append(s, e)[Len(s) + 1] = e
         /\ \A k \in DOMAIN s :
              /\ k \in Nat \ {0} /\ k <= Len(s)
              /\ k \in DOMAIN Append(s, e) /\ Append(s, e)[k] = s[k]
         /\ \A k \in DOMAIN Append(s, e) : k \in DOMAIN s \/ k = Len(s) + 1
  OBVIOUS

(* The steps that leave the phone's side and the logs alone. *)
Idle ==
  \/ Start \/ Handshake \/ NoPhoneMessage \/ NoCodexMessage \/ WriteRunning
  \/ Environment \/ UNCHANGED vars

LEMMA IdleKeeps ==
  ASSUME Idle
  PROVE  UNCHANGED <<pending, todo, sent, decisionsLog, approvalsLog, toBridge, toPhone, asked,
                     reply, view, relayed>>
  BY DEF Idle, Start, Handshake, NoPhoneMessage, NoCodexMessage, WriteRunning, Environment,
         BridgeUnchanged, vars, brokerVars, runtimeVars, logVars, phoneVars

LEMMA TheSteps ==
  ASSUME [Next]_vars
  PROVE  \/ EndRun
         \/ Idle
         \/ TakePhoneMessage \/ TakeCodexMessage
         \/ SendToCodex \/ RecordEvents \/ QueueForPhone
         \/ PhoneSends \/ PhoneReads
  BY DEF Next, ServiceStep, Timeout, Fail, SendFails, Idle

(* The next message of the phone. *)
LEMMA TakenMessage ==
  ASSUME BaseInv, TakePhoneMessage
  PROVE  LET m == Head(toBridge) IN
         /\ m \in PhoneMessage /\ HandlePhoneMessage(m)
         /\ todo = <<>> /\ InLoop
         /\ m.id \in DOMAIN asked /\ m = asked[m.id] /\ m.id = Handled + 1
         /\ Handled' = Handled + 1 /\ Handled \in Nat
         /\ UNCHANGED <<asked, reply, view, sent, decisionsLog, approvalsLog, toPhone>>
<1> DEFINE m == Head(toBridge)
<1>1. /\ toBridge \in Seq(PhoneMessage) /\ toBridge # <<>> /\ toBridge' = Tail(toBridge)
      /\ asked \in Seq(PhoneMessage) /\ UNCHANGED asked
  BY DEF BaseInv, TypeInv, PhoneTypeOK, TakePhoneMessage, phoneVars
<1>2. /\ m \in PhoneMessage /\ m = toBridge[1] /\ 1 \in DOMAIN toBridge
      /\ Len(toBridge') = Len(toBridge) - 1 /\ Len(toBridge) \in Nat \ {0}
  BY <1>1, Rest
<1>3. Len(asked) \in Nat /\ Len(toBridge) <= Len(asked)
  BY <1>1 DEF BaseInv, InOrder
<1>4. Handled \in Nat /\ Handled' = Handled + 1 /\ Handled + 1 \in 1..Len(asked)
  BY <1>1, <1>2, <1>3 DEF Handled
<1>5. m = asked[Handled + 1]
  BY <1>2 DEF BaseInv, InOrder
<1>6. Handled + 1 \in DOMAIN asked
  BY <1>1, <1>4
<1>7. m.id = Handled + 1
  BY <1>5, <1>6 DEF BaseInv, InOrder
<1> QED
  BY <1>1, <1>2, <1>4, <1>5, <1>6, <1>7
     DEF TakePhoneMessage, BaseInv, Phases, InLoop, phoneVars, logVars

(***************************************************************************)
(* What the handlers do to the pending approvals and leave to be done.     *)
(***************************************************************************)
ForwardsIt(m) ==
  /\ m \in Forward /\ UNCHANGED pending
  /\ todo' \in {<<>>, <<[to |-> "codex", line |-> m]>>}

TakesOut(m) ==
  /\ m.method = "bridge/respondApproval" /\ m.request \in RequestIds
  /\ pending[m.request] # NoWire
  /\ pending' = [pending EXCEPT ![m.request] = NoWire]

AnswersIt(m) ==
  /\ \E n \in Notice :
       /\ n.id = m.id /\ n.says # "accepted"
       /\ n.says = "snapshot" => n.pending = PendingIn(pending')
       /\ todo' = <<[to |-> "phone", notice |-> n]>>
  /\ \/ UNCHANGED pending
     \/ m.decision \notin Decisions /\ TakesOut(m)

DecidesIt(m) ==
  /\ TakesOut(m) /\ m.decision \in Decisions
  /\ LET x == [wire |-> pending[m.request], decision |-> m.decision] IN
       x \in Answer /\ todo' = DecisionList(m, x, pending')

LEMMA PhoneCases ==
  ASSUME TypeInv, NEW m \in PhoneMessage, HandlePhoneMessage(m)
  PROVE  /\ ForwardsIt(m) \/ AnswersIt(m) \/ DecidesIt(m)
         /\ ForwardsIt(m) => m.method = "initialized" \/ m.id \in relayed'
         /\ relayed \subseteq relayed'
<1>0. relayed \subseteq relayed'
  BY DEF HandlePhoneMessage, PhoneInitialize, PhoneInitialized, PhoneListsPending, PhoneDecides,
         PhoneDecidesWrongly, PhoneAsksOther, runtimeVars
<1>1. CASE PhoneInitialize(m) \/ PhoneInitialized(m)
  <2>1. m \in Forward /\ UNCHANGED pending
    BY <1>1 DEF PhoneInitialize, PhoneInitialized, PhoneMessage, Forward, brokerVars
  <2>2. CASE todo' = Phone(Reply(m, "bridgeManaged"))
    <3>1. "bridgeManaged" \in Answers
      BY DEF Answers
    <3>2. /\ Reply(m, "bridgeManaged") \in Notice /\ Reply(m, "bridgeManaged").id = m.id
          /\ Reply(m, "bridgeManaged").says = "bridgeManaged"
      BY <3>1, ReplyTypes
    <3> QED
      BY <1>0, <2>1, <2>2, <3>2 DEF AnswersIt, ForwardsIt, Phone, Forward
  <2>3. CASE todo' # Phone(Reply(m, "bridgeManaged"))
    <3>1. m.method = "initialized" \/ m.id \in relayed'
      BY <1>1, <2>3 DEF PhoneInitialize, PhoneInitialized
    <3>2. todo' \in {<<>>, Codex(m)}
      BY <1>1, <2>3 DEF PhoneInitialize, PhoneInitialized
    <3> QED
      BY <1>0, <2>1, <3>1, <3>2 DEF ForwardsIt, Codex
  <2> QED
    BY <2>2, <2>3
<1>2. CASE PhoneListsPending(m)
  <2>1. m.id \in 0..MaxAsks /\ UNCHANGED pending
    BY <1>2, PhoneMessageShape, BridgeBoundsAssumption DEF PhoneListsPending, brokerVars
  <2>2. /\ Snapshot(m.id, pending) \in Notice /\ Snapshot(m.id, pending).id = m.id
        /\ Snapshot(m.id, pending).says = "snapshot"
        /\ Snapshot(m.id, pending).pending = PendingIn(pending')
    BY <2>1, NoticeTypes
  <2>3. todo' = <<[to |-> "phone", notice |-> Snapshot(m.id, pending)]>>
    BY <1>2 DEF PhoneListsPending, Phone
  <2>4. AnswersIt(m)
    BY <2>1, <2>2, <2>3 DEF AnswersIt
  <2>5. ~ForwardsIt(m)
    BY <1>2 DEF ForwardsIt, Forward, PhoneListsPending
  <2> QED
    BY <1>0, <2>4, <2>5
<1>3. CASE PhoneDecides(m)
  <2>1. m.request \in RequestIds
    BY <1>3, PhoneMessageShape DEF PhoneDecides
  <2>2. [wire |-> pending[m.request], decision |-> m.decision] \in Answer
    BY <1>3, <2>1 DEF PhoneDecides, SendDecision, TypeInv, BrokerTypeOK, Answer
  <2>3. DecidesIt(m)
    BY <1>3, <2>1, <2>2, DecisionEffectsList DEF PhoneDecides, SendDecision, DecidesIt, TakesOut
  <2>4. ~ForwardsIt(m)
    BY <1>3 DEF ForwardsIt, Forward, PhoneDecides
  <2> QED
    BY <1>0, <2>3, <2>4
<1>4. CASE PhoneDecidesWrongly(m) \/ PhoneAsksOther(m)
  <2>1. "error" \in Answers
    BY DEF Answers
  <2>2. /\ Reply(m, "error") \in Notice /\ Reply(m, "error").id = m.id
        /\ Reply(m, "error").says = "error"
    BY <2>1, ReplyTypes
  <2>3. todo' = <<[to |-> "phone", notice |-> Reply(m, "error")]>>
    BY <1>4 DEF PhoneDecidesWrongly, PhoneAsksOther, Phone
  <2>4. UNCHANGED pending \/ (m.decision \notin Decisions /\ TakesOut(m))
    BY <1>4, PhoneMessageShape
       DEF PhoneDecidesWrongly, PhoneAsksOther, SendInvalidDecision, TakesOut, brokerVars
  <2>5. AnswersIt(m)
    BY <2>2, <2>3, <2>4 DEF AnswersIt
  <2>6. ~ForwardsIt(m)
    BY <1>4 DEF ForwardsIt, Forward, PhoneDecidesWrongly, PhoneAsksOther
  <2> QED
    BY <1>0, <2>5, <2>6
<1> QED
  BY <1>1, <1>2, <1>3, <1>4 DEF HandlePhoneMessage

(* A message that emits no event changes nothing the phone shows. *)
LEMMA SilentMessage ==
  ASSUME NEW m \in Message, BrokerTypeOK, HandleMessage(m), ~Emits(m)
  PROVE  UNCHANGED pending
<1>1. m.method # "turn/completed" /\ ResolutionsOf(m) = {} /\ ApprovalsOf(m) = {}
  BY DEF Emits
<1>2. m.method # "requestApproval" /\ m.method # "serverRequest/resolved"
  BY <1>1 DEF ApprovalsOf, ResolutionsOf
<1>3. CASE HandleItemStarted(m)
  BY <1>3 DEF HandleItemStarted
<1>4. CASE HandleItemCompleted(m)
  <2>1. CASE m.status = "inProgress"
    BY <1>4, <2>1 DEF HandleItemCompleted
  <2>2. CASE m.status # "inProgress"
    <3>1. PendingOf(m.item) = {}
      BY <1>1, <1>4, <2>2 DEF ResolutionsOf, HandleItemCompleted
    <3>2. pending' = [r \in RequestIds |-> pending[r]]
      BY <1>4, <2>2, <3>1 DEF HandleItemCompleted, CleanupForItem
    <3> QED
      BY <3>2 DEF BrokerTypeOK
  <2> QED
    BY <2>1, <2>2
<1> QED
  BY <1>1, <1>2, <1>3, <1>4
     DEF HandleMessage, HandleApproval, HandleResolved, HandleTurnCompleted

(* The next line of the App Server. *)
Reports(m) ==
  /\ m \in Message /\ HandleMessage(m)
  /\ todo' = EventEffects(ApprovalsOf(m), pending')

LEMMA CodexCases ==
  ASSUME TypeInv, TakeCodexMessage
  PROVE  LET m == Head(inbound) IN
         /\ m \in Inbound /\ todo = <<>> /\ InLoop /\ ReadLine
         /\ \/ /\ UNCHANGED pending /\ todo' = <<>>
               /\ m \in Response \/ (m \in Message /\ HandleMessage(m) /\ ~Emits(m))
            \/ Reports(m)
         /\ UNCHANGED <<asked, reply, view, sent, decisionsLog, approvalsLog, toPhone, toBridge,
                        codex, itemState>>
<1> DEFINE m == Head(inbound)
<1>1. m \in Inbound
  <2>1. inbound \in Seq(Inbound) /\ inbound # <<>>
    BY DEF TypeInv, CodexTypes, PipeTypeOK, TakeCodexMessage, ReadLine
  <2> QED
    BY <2>1, Rest
<1>2. CASE m \in Response /\ todo' = <<>> /\ UNCHANGED brokerVars
  BY <1>1, <1>2 DEF TakeCodexMessage, phoneVars, logVars, turnVars, InLoop, brokerVars
<1>3. CASE /\ m \in Message
           /\ HandleMessage(m)
           /\ todo' = IF Emits(m)
                        THEN Audit(ApprovalsOf(m), <<>>) \o Phone(Snapshot(0, pending'))
                        ELSE <<>>
  <2>1. CASE Emits(m)
    <3>1. todo' = EventEffects(ApprovalsOf(m), pending')
      BY <1>3, <2>1, ApprovalTypes, EventList
    <3> QED
      BY <1>1, <1>3, <3>1 DEF TakeCodexMessage, phoneVars, logVars, turnVars, InLoop, Reports
  <2>2. CASE ~Emits(m)
    BY <1>1, <1>3, <2>2, SilentMessage
       DEF TypeInv, TakeCodexMessage, phoneVars, logVars, turnVars, InLoop
  <2> QED
    BY <2>1, <2>2
<1> QED
  BY <1>2, <1>3 DEF TakeCodexMessage, HandleCodexMessage

(***************************************************************************)
(* What a message does to the pending approvals: it opens its own, closes  *)
(* those it closes, and leaves the others.                                 *)
(***************************************************************************)
IsApproval(m, w) == m.method = "requestApproval" /\ m.wire = w
IsResolved(m, w) == m.method = "serverRequest/resolved" /\ m.wire = w
IsCompleted(m, i) == m.method = "item/completed" /\ m.item = i /\ m.status = "completed"
Closes(m, w) == IsResolved(m, w) \/ IsCompleted(m, ItemOf[w])

LEMMA PendingAfter ==
  ASSUME TypeInv, Filed, NEW m \in Message, HandleMessage(m), NEW r \in RequestIds
  PROVE  \/ pending'[r] = pending[r] /\ ~(pending[r] # NoWire /\ Closes(m, pending[r]))
         \/ \E w \in WireIds : IsApproval(m, w) /\ Normalized[w] = r /\ pending'[r] = w
         \/ pending[r] # NoWire /\ Closes(m, pending[r]) /\ pending'[r] = NoWire
<1> USE NormalizedAssumption, NoWireAssumption, ItemAssumption
    DEF IsApproval, IsResolved, IsCompleted, Closes
<1> USE DEF Message, ApprovalMsg, ResolvedMsg, StartedMsg, CompletedMsg, TurnMsg
<1>0. /\ pending \in [RequestIds -> WireIds \cup {NoWire}]
      /\ pending[r] # NoWire => Normalized[pending[r]] = r
  BY DEF TypeInv, BrokerTypeOK, Filed
<1>1. CASE HandleApproval(m)
  BY <1>0, <1>1 DEF HandleApproval
<1>2. CASE HandleItemStarted(m) \/ HandleTurnCompleted(m)
  BY <1>2 DEF HandleItemStarted, HandleTurnCompleted, brokerVars
<1>3. CASE HandleItemCompleted(m)
  <2>1. m.method = "item/completed" /\ m.item \in Items /\ m.status \in {"inProgress", "completed"}
    BY <1>3 DEF HandleItemCompleted
  <2>2. CASE m.status = "inProgress"
    BY <1>3, <2>1, <2>2 DEF HandleItemCompleted
  <2>3. CASE m.status = "completed"
    <3>1. pending'[r] = IF pending[r] # NoWire /\ ItemOf[pending[r]] = m.item
                          THEN NoWire ELSE pending[r]
      BY <1>3, <2>3 DEF HandleItemCompleted, CleanupForItem, PendingOf, PendingIds, PendingIn
    <3> QED
      BY <2>1, <2>3, <3>1
  <2> QED
    BY <2>1, <2>2, <2>3
<1>4. CASE HandleResolved(m)
  <2>1. m.method = "serverRequest/resolved" /\ m.wire \in WireIds
    BY <1>4 DEF HandleResolved
  <2>2. pending' = [pending EXCEPT ![Normalized[m.wire]] = NoWire]
    BY <1>4 DEF HandleResolved
  <2>3. CASE r = Normalized[m.wire]
    BY <1>0, <2>1, <2>2, <2>3
  <2>4. CASE r # Normalized[m.wire]
    BY <1>0, <2>1, <2>2, <2>4
  <2> QED
    BY <2>3, <2>4
<1> QED
  BY <1>1, <1>2, <1>3, <1>4 DEF HandleMessage

(* A request that is read is pending. *)
LEMMA PendingOpened ==
  ASSUME TypeInv, NEW m \in Message, HandleMessage(m), NEW w \in WireIds, IsApproval(m, w)
  PROVE  pending'[Normalized[w]] = w /\ ApprovalsOf(m) = {Normalized[w]}
<1>1. HandleApproval(m)
  BY DEF HandleMessage, HandleItemStarted, HandleItemCompleted, HandleResolved,
         HandleTurnCompleted, IsApproval
<1> QED
  BY <1>1, NormalizedAssumption
     DEF HandleApproval, TypeInv, BrokerTypeOK, IsApproval, ApprovalsOf

LEMMA FiledStep ==
  ASSUME BaseInv, [Next]_vars
  PROVE  Filed'
<1> USE DEF BaseInv
<1>1. CASE EndRun
  BY <1>1, EndRunBlank DEF Blank, NothingPending, Filed
<1>2. CASE Idle \/ SendToCodex \/ RecordEvents \/ QueueForPhone \/ PhoneSends \/ PhoneReads
  <2>1. UNCHANGED pending
    BY <1>2, IdleKeeps DEF SendToCodex, RecordEvents, QueueForPhone, PhoneSends, PhoneReads,
                           brokerVars
  <2> QED
    BY <2>1 DEF Filed
<1>3. CASE TakePhoneMessage
  <2>1. Head(toBridge) \in PhoneMessage /\ HandlePhoneMessage(Head(toBridge))
    BY <1>3, TakenMessage
  <2>2. UNCHANGED pending \/ TakesOut(Head(toBridge))
    BY <2>1, PhoneCases DEF ForwardsIt, AnswersIt, DecidesIt
  <2> QED
    BY <2>2 DEF TakesOut, Filed, TypeInv, BrokerTypeOK
<1>4. CASE TakeCodexMessage
  <2>1. UNCHANGED pending \/ Reports(Head(inbound))
    BY <1>4, CodexCases
  <2> QED
    BY <2>1, PendingAfter DEF Reports, Filed
<1> QED
  BY <1>1, <1>2, <1>3, <1>4, TheSteps

LEMMA InOrderStep ==
  ASSUME BaseInv, [Next]_vars
  PROVE  InOrder'
<1> USE DEF BaseInv
<1>1. CASE EndRun
  <2>1. asked' = <<>> /\ toBridge' = <<>>
    BY <1>1, EndRunBlank DEF Blank
  <2>2. Len(asked') = 0 /\ Len(toBridge') = 0 /\ DOMAIN asked' = {} /\ DOMAIN toBridge' = {}
    BY <2>1
  <2> QED
    BY <2>2 DEF InOrder
<1>2. CASE Idle \/ TakeCodexMessage \/ SendToCodex \/ RecordEvents \/ QueueForPhone \/ PhoneReads
  <2>1. UNCHANGED <<asked, toBridge>>
    BY <1>2, IdleKeeps, CodexCases DEF SendToCodex, RecordEvents, QueueForPhone, PhoneReads,
                                       phoneVars
  <2> QED
    BY <2>1 DEF InOrder, Handled
<1>3. CASE TakePhoneMessage
  <2>1. Handled' = Handled + 1 /\ Handled \in Nat /\ UNCHANGED asked
    BY <1>3, TakenMessage
  <2>2. toBridge \in Seq(PhoneMessage) /\ toBridge # <<>> /\ toBridge' = Tail(toBridge)
    BY <1>3 DEF TypeInv, PhoneTypeOK, TakePhoneMessage
  <2>3. /\ Len(toBridge') = Len(toBridge) - 1 /\ Len(toBridge) \in Nat
        /\ \A k \in DOMAIN toBridge' :
             k \in Nat /\ k + 1 \in DOMAIN toBridge /\ toBridge'[k] = toBridge[k + 1]
    BY <2>2, Rest
  <2>4. Len(asked) \in Nat
    BY DEF TypeInv, PhoneTypeOK
  <2>5. \A k \in DOMAIN toBridge' : toBridge'[k] = asked'[Handled' + k]
    <3> SUFFICES ASSUME NEW k \in DOMAIN toBridge'
                 PROVE  toBridge'[k] = asked'[Handled' + k]
      OBVIOUS
    <3>1. toBridge'[k] = asked[Handled + (k + 1)] /\ k \in Nat
      BY <2>3 DEF InOrder
    <3>2. Handled + (k + 1) = Handled' + k
      BY <2>1, <3>1
    <3> QED
      BY <2>1, <3>1, <3>2
  <2>6. Len(toBridge') <= Len(asked')
    BY <2>1, <2>3, <2>4 DEF InOrder
  <2> QED
    BY <2>1, <2>5, <2>6 DEF InOrder
<1>4. CASE PhoneSends
  <2>1. PICK m \in PhoneMessage : /\ m.id = Len(asked) + 1
                                  /\ toBridge' = Append(toBridge, m) /\ asked' = Append(asked, m)
    BY <1>4 DEF PhoneSends
  <2>2. asked \in Seq(PhoneMessage) /\ toBridge \in Seq(PhoneMessage)
    BY DEF TypeInv, PhoneTypeOK
  <2>3. /\ Len(asked) \in Nat /\ Len(asked') = Len(asked) + 1
        /\ asked'[Len(asked) + 1] = m
        /\ \A k \in DOMAIN asked : asked'[k] = asked[k]
        /\ \A k \in DOMAIN asked' : k \in DOMAIN asked \/ k = Len(asked) + 1
    BY <2>1, <2>2, OneMore
  <2>4. /\ Len(toBridge) \in Nat /\ Len(toBridge') = Len(toBridge) + 1
        /\ toBridge'[Len(toBridge) + 1] = m
        /\ \A k \in DOMAIN toBridge : toBridge'[k] = toBridge[k] /\ k \in Nat /\ k <= Len(toBridge)
        /\ \A k \in DOMAIN toBridge' : k \in DOMAIN toBridge \/ k = Len(toBridge) + 1
    BY <2>1, <2>2, OneMore
  <2>5. Handled' = Handled /\ Handled \in Int /\ Handled + (Len(toBridge) + 1) = Len(asked) + 1
    BY <2>3, <2>4 DEF Handled
  <2>6. Len(toBridge') <= Len(asked')
    BY <2>3, <2>4 DEF InOrder
  <2>7. \A a \in DOMAIN asked' : asked'[a].id = a
    BY <2>1, <2>3 DEF InOrder
  <2>8. \A k \in DOMAIN toBridge' : toBridge'[k] = asked'[Handled' + k]
    <3>1. \A k \in DOMAIN toBridge : Handled + k \in DOMAIN asked
      <4> SUFFICES ASSUME NEW k \in DOMAIN toBridge
                   PROVE  Handled + k \in DOMAIN asked
        OBVIOUS
      <4>1. k \in 1..Len(toBridge) /\ DOMAIN asked = 1..Len(asked)
        BY <2>2
      <4>2. Handled + k \in 1..Len(asked)
        BY <2>3, <2>4, <4>1 DEF Handled, InOrder
      <4> QED
        BY <4>1, <4>2
    <3> QED
      BY <2>3, <2>4, <2>5, <3>1 DEF InOrder
  <2> QED
    BY <2>6, <2>7, <2>8 DEF InOrder
<1> QED
  BY <1>1, <1>2, <1>3, <1>4, TheSteps

LEMMA PhasesStep ==
  ASSUME BaseInv, [Next]_vars
  PROVE  Phases'
<1> USE DEF BaseInv
<1>1. CASE EndRun
  BY <1>1, EndRunBlank DEF Phases, InLoop
<1>2. CASE Start \/ UNCHANGED vars
  BY <1>2 DEF Phases, Blank, Start, vars, brokerVars, codexVars, turnVars, pipeVars, logVars,
              phoneVars, InLoop, NothingPending
<1>3. CASE Handshake
  BY <1>3 DEF Phases, Blank, Handshake, InLoop
<1>4. CASE TakePhoneMessage \/ TakeCodexMessage \/ NoPhoneMessage \/ NoCodexMessage \/ WriteRunning
  BY <1>4 DEF Phases, InLoop, TakePhoneMessage, TakeCodexMessage, NoPhoneMessage, NoCodexMessage,
              WriteRunning
<1>5. CASE SendToCodex \/ RecordEvents \/ QueueForPhone
  <2>1. todo # <<>> /\ UNCHANGED pc
    BY <1>5 DEF SendToCodex, RecordEvents, QueueForPhone
  <2> QED
    BY <2>1 DEF Phases, Blank, InLoop
<1>6. CASE Environment
  <2>1. running /\ UNCHANGED <<pc, todo>>
    BY <1>6 DEF Environment, BridgeUnchanged, CodexStep, TakeForward, StartItem, ReportItem,
                CompleteItem, RequestApproval, WithdrawRequest, TakeDecision, IgnoreDecision,
                CompleteTurn, Die
  <2> QED
    BY <2>1 DEF Phases, Blank, InLoop
<1>7. CASE PhoneSends \/ PhoneReads
  <2>1. InLoop /\ UNCHANGED <<pc, todo>>
    BY <1>7 DEF PhoneSends, PhoneReads, InLoop, Phases, Blank
  <2> QED
    BY <2>1 DEF Phases, InLoop
<1> QED
  BY <1>1, <1>2, <1>3, <1>4, <1>5, <1>6, <1>7, TheSteps DEF Idle

LEMMA BaseInit == Init => BaseInv
<1> SUFFICES ASSUME Init PROVE BaseInv
  OBVIOUS
<1>1. Blank /\ pc = "down"
  BY InitBlank
<1>2. asked = <<>> /\ toBridge = <<>>
  BY <1>1 DEF Blank
<1>3. Len(asked) = 0 /\ Len(toBridge) = 0 /\ DOMAIN asked = {} /\ DOMAIN toBridge = {}
  BY <1>2
<1>4. InOrder
  BY <1>3 DEF InOrder
<1> QED
  BY <1>1, <1>4, TypeInit DEF BaseInv, Phases, InLoop, Filed, Blank, NothingPending

LEMMA BaseStep ==
  ASSUME BaseInv, [Next]_vars
  PROVE  BaseInv'
  BY TypeStep, PhasesStep, InOrderStep, FiledStep DEF BaseInv

-----------------------------------------------------------------------------
(***************************************************************************)
(* What the phone is told.  An "accepted" still to be queued comes behind  *)
(* the decision it stands for and behind its record; one that is queued or *)
(* read stands for a decision that was sent and recorded.                  *)
(***************************************************************************)
Decides(x, q) == Normalized[x.wire] = q.request /\ x.decision = q.decision

Logged(log, q) == \E k \in DOMAIN log : Decides(log[k], q)

Told(a) == a \in DOMAIN asked /\ Logged(sent, asked[a]) /\ Logged(decisionsLog, asked[a])

SendsIt(e, q) == e.to = "codex" /\ e.line \in Answer /\ Decides(e.line, q)

RecordsIt(e, q) == e.to = "audit" /\ \E x \in Answer : e.decisions = <<x>> /\ Decides(x, q)

Accepts(e) == e.to = "phone" /\ e.notice.says = "accepted"

ToBeTold ==
  \A k \in DOMAIN todo :
    Accepts(todo[k]) =>
      LET a == todo[k].notice.id IN
      /\ a \in DOMAIN asked
      /\ Logged(sent, asked[a]) \/ \E j \in DOMAIN todo : j < k /\ SendsIt(todo[j], asked[a])
      /\ \/ Logged(decisionsLog, asked[a])
         \/ \E j \in DOMAIN todo : j < k /\ RecordsIt(todo[j], asked[a])

BeingTold == \A k \in DOMAIN toPhone : toPhone[k].says = "accepted" => Told(toPhone[k].id)

WasTold == \A a \in Asks : reply[a] = "accepted" => Told(a)

PromiseInv == WasTold /\ BeingTold /\ ToBeTold

LEMMA PromiseBlank ==
  ASSUME Blank
  PROVE  PromiseInv
<1>1. DOMAIN todo = {} /\ DOMAIN toPhone = {}
  BY DEF Blank
<1>2. \A a \in Asks : reply[a] # "accepted"
  BY DEF Blank, Unanswered
<1> QED
  BY <1>1, <1>2 DEF PromiseInv, ToBeTold, BeingTold, WasTold

LEMMA TodoTaken ==
  ASSUME TypeInv, todo # <<>>, todo' = Tail(todo)
  PROVE  /\ Head(todo) = todo[1] /\ 1 \in DOMAIN todo
         /\ \A k \in DOMAIN todo : k \in Nat \ {0}
         /\ \A k \in DOMAIN todo' :
              k \in Nat \ {0} /\ k + 1 \in DOMAIN todo /\ todo'[k] = todo[k + 1]
         /\ \A k \in DOMAIN todo : k # 1 => k - 1 \in DOMAIN todo' /\ todo'[k - 1] = todo[k]
<1>1. todo \in Seq(Effect)
  BY DEF TypeInv, LoopTypeOK
<1> QED
  BY <1>1, Rest

LEMMA ToPhoneTaken ==
  ASSUME TypeInv, toPhone # <<>>, toPhone' = Tail(toPhone)
  PROVE  /\ Head(toPhone) = toPhone[1] /\ 1 \in DOMAIN toPhone /\ Head(toPhone) \in Notice
         /\ \A k \in DOMAIN toPhone : k \in Nat \ {0}
         /\ \A k \in DOMAIN toPhone' :
              k \in Nat \ {0} /\ k + 1 \in DOMAIN toPhone /\ toPhone'[k] = toPhone[k + 1]
         /\ \A k \in DOMAIN toPhone :
              k # 1 => k - 1 \in DOMAIN toPhone' /\ toPhone'[k - 1] = toPhone[k]
<1>1. toPhone \in Seq(Notice)
  BY DEF TypeInv, PhoneTypeOK
<1> QED
  BY <1>1, Rest

(* The list a decision leaves. *)
LEMMA DecisionListIs ==
  ASSUME NEW m, NEW x, NEW p
  PROVE  LET s == DecisionList(m, x, p) IN
         /\ DOMAIN s = 1..4
         /\ s[1] = [to |-> "codex", line |-> x]
         /\ s[2] = [to |-> "audit", approvals |-> {}, decisions |-> <<x>>]
         /\ s[3] = [to |-> "phone", notice |-> Reply(m, "accepted")]
         /\ s[4] = [to |-> "phone", notice |-> Snapshot(0, p)]
  BY DEF DecisionList

LEMMA EventListIs ==
  ASSUME NEW s, NEW p
  PROVE  LET t == EventEffects(s, p) IN
         /\ DOMAIN t = 1..2
         /\ t[1] = [to |-> "audit", approvals |-> s, decisions |-> <<>>]
         /\ t[2] = [to |-> "phone", notice |-> Snapshot(0, p)]
  BY DEF EventEffects

LEMMA PromiseTaken ==
  ASSUME BaseInv, PromiseInv, TakePhoneMessage
  PROVE  PromiseInv'
<1>1. PICK m \in PhoneMessage :
           /\ m = Head(toBridge) /\ HandlePhoneMessage(m) /\ m.id \in DOMAIN asked
           /\ m = asked[m.id]
           /\ UNCHANGED <<asked, reply, sent, decisionsLog, toPhone>>
  BY TakenMessage
<1>2. WasTold' /\ BeingTold'
  BY <1>1 DEF PromiseInv, WasTold, BeingTold, Told
<1>3. CASE ForwardsIt(m)
  <2>1. \A k \in DOMAIN todo' : todo'[k].to = "codex"
    BY <1>3 DEF ForwardsIt
  <2> QED
    BY <1>2, <2>1 DEF PromiseInv, ToBeTold, Accepts
<1>4. CASE AnswersIt(m)
  <2>1. \A k \in DOMAIN todo' : todo'[k].notice.says # "accepted"
    BY <1>4 DEF AnswersIt
  <2> QED
    BY <1>2, <2>1 DEF PromiseInv, ToBeTold, Accepts
<1>5. CASE DecidesIt(m)
  <2>0. PICK x \in Answer : /\ x.wire = pending[m.request] /\ x.decision = m.decision
                            /\ todo' = DecisionList(m, x, pending')
    BY <1>5 DEF DecidesIt
  <2>1. Decides(x, m)
    BY <1>5, <2>0 DEF DecidesIt, TakesOut, BaseInv, Filed, Decides
  <2>2. /\ DOMAIN todo' = 1..4
        /\ todo'[1] = [to |-> "codex", line |-> x]
        /\ todo'[2] = [to |-> "audit", approvals |-> {}, decisions |-> <<x>>]
        /\ todo'[3] = [to |-> "phone", notice |-> Reply(m, "accepted")]
        /\ todo'[4] = [to |-> "phone", notice |-> Snapshot(0, pending')]
    BY <2>0, DecisionListIs
  <2>3. Reply(m, "accepted").id = m.id /\ Snapshot(0, pending').says = "snapshot"
    BY DEF Reply, Snapshot
  <2>4. SendsIt(todo'[1], m) /\ RecordsIt(todo'[2], m)
    BY <2>1, <2>2 DEF SendsIt, RecordsIt
  <2>5. ASSUME NEW k \in DOMAIN todo', Accepts(todo'[k])
        PROVE  k = 3
    <3>1. k \in 1..4
      BY <2>2
    <3>2. k # 4 /\ k # 1 /\ k # 2
      BY <2>2, <2>3, <2>5 DEF Accepts
    <3> QED
      BY <3>1, <3>2
  <2>6. ToBeTold'
    <3> SUFFICES ASSUME NEW k \in DOMAIN todo', Accepts(todo'[k])
                 PROVE  LET a == todo'[k].notice.id IN
                        /\ a \in DOMAIN asked'
                        /\ \E j \in DOMAIN todo' : j < k /\ SendsIt(todo'[j], asked'[a])
                        /\ \E j \in DOMAIN todo' : j < k /\ RecordsIt(todo'[j], asked'[a])
      BY DEF ToBeTold
    <3>1. k = 3 /\ todo'[k].notice.id = m.id
      BY <2>2, <2>3, <2>5
    <3>2. 1 \in DOMAIN todo' /\ 2 \in DOMAIN todo' /\ 1 < k /\ 2 < k
      BY <2>2, <3>1
    <3> QED
      BY <1>1, <2>4, <3>1, <3>2
  <2> QED
    BY <1>2, <2>6 DEF PromiseInv
<1> QED
  BY <1>1, <1>3, <1>4, <1>5, PhoneCases DEF BaseInv

LEMMA PromiseReported ==
  ASSUME BaseInv, PromiseInv, TakeCodexMessage
  PROVE  PromiseInv'
<1>1. /\ todo' = <<>> \/ Reports(Head(inbound))
      /\ UNCHANGED <<asked, reply, sent, decisionsLog, toPhone>>
  BY CodexCases DEF BaseInv
<1>2. WasTold' /\ BeingTold'
  BY <1>1 DEF PromiseInv, WasTold, BeingTold, Told
<1>3. CASE todo' = <<>>
  BY <1>2, <1>3 DEF PromiseInv, ToBeTold
<1>4. CASE Reports(Head(inbound))
  <2>1. PICK s : todo' = EventEffects(s, pending')
    BY <1>4 DEF Reports
  <2>2. /\ DOMAIN todo' = 1..2
        /\ todo'[1] = [to |-> "audit", approvals |-> s, decisions |-> <<>>]
        /\ todo'[2] = [to |-> "phone", notice |-> Snapshot(0, pending')]
    BY <2>1, EventListIs
  <2>3. Snapshot(0, pending').says = "snapshot"
    BY DEF Snapshot
  <2>4. \A k \in DOMAIN todo' : ~Accepts(todo'[k])
    BY <2>2, <2>3 DEF Accepts
  <2> QED
    BY <1>2, <2>4 DEF PromiseInv, ToBeTold
<1> QED
  BY <1>1, <1>3, <1>4

(* An effect is carried out: what comes behind it moves up, and what it    *)
(* was to send or record is sent or recorded.                              *)
LEMMA PromiseCarried ==
  ASSUME BaseInv, PromiseInv, todo # <<>>, todo' = Tail(todo), UNCHANGED <<asked, reply>>,
         \A q : Logged(sent, q) => Logged(sent', q),
         \A q : Logged(decisionsLog, q) => Logged(decisionsLog', q),
         \A q : SendsIt(Head(todo), q) => Logged(sent', q),
         \A q : RecordsIt(Head(todo), q) => Logged(decisionsLog', q),
         BeingTold'
  PROVE  PromiseInv'
<1>1. WasTold'
  BY DEF PromiseInv, WasTold, Told
<1>2. ToBeTold'
  <2> SUFFICES ASSUME NEW k \in DOMAIN todo', Accepts(todo'[k])
               PROVE  LET a == todo'[k].notice.id IN
                      /\ a \in DOMAIN asked
                      /\ \/ Logged(sent', asked[a])
                         \/ \E j \in DOMAIN todo' : j < k /\ SendsIt(todo'[j], asked[a])
                      /\ \/ Logged(decisionsLog', asked[a])
                         \/ \E j \in DOMAIN todo' : j < k /\ RecordsIt(todo'[j], asked[a])
    BY DEF ToBeTold
  <2> DEFINE a == todo'[k].notice.id
  <2>1. k \in Nat \ {0} /\ k + 1 \in DOMAIN todo /\ todo'[k] = todo[k + 1]
    BY TodoTaken DEF BaseInv
  <2>2. /\ a \in DOMAIN asked
        /\ Logged(sent, asked[a]) \/ \E j \in DOMAIN todo : j < k + 1 /\ SendsIt(todo[j], asked[a])
        /\ \/ Logged(decisionsLog, asked[a])
           \/ \E j \in DOMAIN todo : j < k + 1 /\ RecordsIt(todo[j], asked[a])
    BY <2>1 DEF PromiseInv, ToBeTold
  <2>3. ASSUME NEW j \in DOMAIN todo, j < k + 1
        PROVE  todo[j] = Head(todo) \/ \E i \in DOMAIN todo' : i < k /\ todo'[i] = todo[j]
    <3>1. j \in Nat /\ (j = 1 => todo[j] = Head(todo))
            /\ (j # 1 => j - 1 \in DOMAIN todo' /\ todo'[j - 1] = todo[j])
      BY TodoTaken DEF BaseInv
    <3>2. j - 1 < k
      BY <2>1, <2>3, <3>1
    <3> QED
      BY <3>1, <3>2
  <2> QED
    BY <2>2, <2>3
<1> QED
  BY <1>1, <1>2 DEF PromiseInv

LEMMA PromiseEffects ==
  ASSUME BaseInv, PromiseInv, SendToCodex \/ RecordEvents \/ QueueForPhone
  PROVE  PromiseInv'
<1>0. todo # <<>> /\ todo' = Tail(todo) /\ UNCHANGED <<asked, reply>>
  BY DEF SendToCodex, RecordEvents, QueueForPhone, phoneVars
<1>1. sent \in Seq(Answer) /\ decisionsLog \in Seq(Answer) /\ toPhone \in Seq(Notice)
  BY DEF BaseInv, TypeInv, LogTypeOK, PhoneTypeOK
<1>2. CASE SendToCodex
  <2>1. Head(todo).to = "codex" /\ UNCHANGED <<decisionsLog, toPhone>>
    BY <1>2 DEF SendToCodex
  <2>2. /\ Head(todo).line \in Answer => sent' = Append(sent, Head(todo).line)
        /\ Head(todo).line \notin Answer => sent' = sent
    BY <1>2 DEF SendToCodex
  <2>3. ASSUME NEW q, Logged(sent, q)
        PROVE  Logged(sent', q)
    BY <1>1, <2>2, <2>3, OneMore DEF Logged
  <2>4. ASSUME NEW q, SendsIt(Head(todo), q)
        PROVE  Logged(sent', q)
    <3>1. /\ sent' = Append(sent, Head(todo).line) /\ Head(todo).line \in Answer
          /\ Decides(Head(todo).line, q)
      BY <2>2, <2>4 DEF SendsIt
    <3>2. Len(sent) + 1 \in DOMAIN sent' /\ sent'[Len(sent) + 1] = Head(todo).line
      BY <1>1, <3>1, OneMore
    <3> QED
      BY <3>1, <3>2 DEF Logged
  <2>5. \A q : ~RecordsIt(Head(todo), q)
    BY <2>1 DEF RecordsIt
  <2>6. BeingTold'
    BY <1>0, <2>1, <2>3 DEF PromiseInv, BeingTold, Told
  <2> QED
    BY <1>0, <2>1, <2>3, <2>4, <2>5, <2>6, PromiseCarried
<1>3. CASE RecordEvents
  <2>1. /\ Head(todo).to = "audit" /\ UNCHANGED <<sent, toPhone>>
        /\ decisionsLog' = decisionsLog \o Head(todo).decisions
        /\ Head(todo).decisions \in Seq(Answer)
    BY <1>3, FirstEffect DEF RecordEvents, BaseInv
  <2>2. /\ Len(decisionsLog') = Len(decisionsLog) + Len(Head(todo).decisions)
        /\ decisionsLog' \in Seq(Answer)
        /\ \A k \in 1..(Len(decisionsLog) + Len(Head(todo).decisions)) :
             decisionsLog'[k] = IF k <= Len(decisionsLog) THEN decisionsLog[k]
                                ELSE Head(todo).decisions[k - Len(decisionsLog)]
    BY <1>1, <2>1, ConcatProperties
  <2>3. /\ Len(decisionsLog) \in Nat /\ Len(Head(todo).decisions) \in Nat
        /\ DOMAIN decisionsLog = 1..Len(decisionsLog)
        /\ DOMAIN decisionsLog' = 1..Len(decisionsLog')
    BY <1>1, <2>1, <2>2
  <2>4. ASSUME NEW q, Logged(decisionsLog, q)
        PROVE  Logged(decisionsLog', q)
    BY <2>2, <2>3, <2>4 DEF Logged
  <2>5. ASSUME NEW q, RecordsIt(Head(todo), q)
        PROVE  Logged(decisionsLog', q)
    <3>1. PICK x \in Answer : Head(todo).decisions = <<x>> /\ Decides(x, q)
      BY <2>5 DEF RecordsIt
    <3>2. Len(Head(todo).decisions) = 1 /\ Head(todo).decisions[1] = x
      BY <3>1
    <3>3. Len(decisionsLog) + 1 \in DOMAIN decisionsLog' /\ decisionsLog'[Len(decisionsLog) + 1] = x
      BY <2>2, <2>3, <3>2
    <3> QED
      BY <3>1, <3>3 DEF Logged
  <2>6. \A q : ~SendsIt(Head(todo), q)
    BY <2>1 DEF SendsIt
  <2>7. BeingTold'
    BY <1>0, <2>1, <2>4 DEF PromiseInv, BeingTold, Told
  <2> QED
    BY <1>0, <2>1, <2>4, <2>5, <2>6, <2>7, PromiseCarried
<1>4. CASE QueueForPhone
  <2>1. /\ Head(todo).to = "phone" /\ UNCHANGED <<sent, decisionsLog>>
        /\ toPhone' = Append(toPhone, Head(todo).notice) /\ Head(todo).notice \in Notice
    BY <1>4, FirstEffect DEF QueueForPhone, logVars, BaseInv
  <2>2. \A q : ~SendsIt(Head(todo), q) /\ ~RecordsIt(Head(todo), q)
    BY <2>1 DEF SendsIt, RecordsIt
  <2>3. ASSUME Head(todo).notice.says = "accepted"
        PROVE  Told(Head(todo).notice.id)
    <3>1. /\ Head(todo) = todo[1] /\ 1 \in DOMAIN todo /\ \A k \in DOMAIN todo : k \in Nat \ {0}
      BY <1>0, TodoTaken DEF BaseInv
    <3>2. \A k \in DOMAIN todo : ~(k < 1)
      BY <3>1
    <3> QED
      BY <2>1, <2>3, <3>1, <3>2 DEF PromiseInv, ToBeTold, Accepts, Told
  <2>4. BeingTold'
    BY <1>0, <1>1, <2>1, <2>3, OneMore DEF PromiseInv, BeingTold, Told
  <2> QED
    BY <1>0, <2>1, <2>2, <2>4, PromiseCarried
<1> QED
  BY <1>2, <1>3, <1>4

LEMMA PromisePhone ==
  ASSUME BaseInv, PromiseInv, PhoneSends \/ PhoneReads
  PROVE  PromiseInv'
<1>1. CASE PhoneSends
  <2>1. PICK m \in PhoneMessage : asked' = Append(asked, m)
    BY <1>1 DEF PhoneSends
  <2>2. UNCHANGED <<todo, reply, sent, decisionsLog, toPhone>>
    BY <1>1 DEF PhoneSends, logVars
  <2>3. \A a \in DOMAIN asked : a \in DOMAIN asked' /\ asked'[a] = asked[a]
    BY <2>1, OneMore DEF BaseInv, TypeInv, PhoneTypeOK
  <2>4. WasTold' /\ BeingTold'
    BY <2>2, <2>3 DEF PromiseInv, WasTold, BeingTold, Told
  <2>5. ToBeTold'
    BY <2>2, <2>3 DEF PromiseInv, ToBeTold
  <2> QED
    BY <2>4, <2>5 DEF PromiseInv
<1>2. CASE PhoneReads
  <2> DEFINE n == Head(toPhone)
  <2>1. /\ toPhone # <<>> /\ toPhone' = Tail(toPhone)
        /\ reply' = IF n.id # 0 THEN [reply EXCEPT ![n.id] = n.says] ELSE reply
        /\ UNCHANGED <<todo, asked, sent, decisionsLog>>
    BY <1>2 DEF PhoneReads, logVars
  <2>2. /\ n = toPhone[1] /\ 1 \in DOMAIN toPhone
        /\ \A k \in DOMAIN toPhone' : k + 1 \in DOMAIN toPhone /\ toPhone'[k] = toPhone[k + 1]
    BY <2>1, ToPhoneTaken DEF BaseInv
  <2>3. n.says = "accepted" => Told(n.id)
    BY <2>2 DEF PromiseInv, BeingTold
  <2>4. WasTold'
    BY <2>1, <2>3 DEF PromiseInv, WasTold, Told, BaseInv, TypeInv, PhoneTypeOK
  <2>5. BeingTold'
    BY <2>1, <2>2 DEF PromiseInv, BeingTold, Told
  <2>6. ToBeTold'
    BY <2>1 DEF PromiseInv, ToBeTold
  <2> QED
    BY <2>4, <2>5, <2>6 DEF PromiseInv
<1> QED
  BY <1>1, <1>2

LEMMA PromiseStep ==
  ASSUME BaseInv, PromiseInv, [Next]_vars
  PROVE  PromiseInv'
<1>1. CASE EndRun
  <2>1. DOMAIN todo' = {} /\ DOMAIN toPhone' = {} /\ \A a \in Asks : reply'[a] # "accepted"
    BY <1>1, EndRunBlank DEF Blank, Unanswered
  <2> QED
    BY <2>1 DEF PromiseInv, ToBeTold, BeingTold, WasTold
<1>2. CASE Idle
  BY <1>2, IdleKeeps DEF PromiseInv, ToBeTold, BeingTold, WasTold, Told
<1> QED
  BY <1>1, <1>2, PromiseTaken, PromiseReported, PromiseEffects, PromisePhone, TheSteps

(***************************************************************************)
(* A phone that is told "accepted" can rely on it: its decision was sent   *)
(* to the App Server and recorded (on_application_message sends before it  *)
(* records, and records before it answers).                                *)
(***************************************************************************)
THEOREM AcceptedHolds == Spec => []AcceptedIsAnswered
<1>1. Init => BaseInv /\ PromiseInv
  BY BaseInit, InitBlank, PromiseBlank
<1>2. BaseInv /\ PromiseInv /\ [Next]_vars => (BaseInv /\ PromiseInv)'
  BY BaseStep, PromiseStep
<1>3. BaseInv /\ PromiseInv => AcceptedIsAnswered
  BY DEF PromiseInv, WasTold, Told, Logged, Decides, AcceptedIsAnswered
<1> QED
  BY <1>1, <1>2, <1>3, PTL DEF Spec

-----------------------------------------------------------------------------
(***************************************************************************)
(* What the phone shows.  A snapshot still to be queued is of the approvals *)
(* pending now, which nothing changes before it is; the last one that is   *)
(* queued, or what the phone shows if none is, differs from them by what a *)
(* wrong decision took out at most.                                        *)
(***************************************************************************)
IsCurrent(p) == p \ DecidedWrongly = PendingIds \ DecidedWrongly

Shows(e) == e.to = "phone" /\ e.notice.says = "snapshot"

IsLastSnapshot(k) ==
  /\ toPhone[k].says = "snapshot"
  /\ \A j \in DOMAIN toPhone : j > k => toPhone[j].says # "snapshot"

ToBeShown == \A k \in DOMAIN todo : Shows(todo[k]) => todo[k].notice.pending = PendingIds

BeingShown == \A k \in DOMAIN toPhone : IsLastSnapshot(k) => IsCurrent(toPhone[k].pending)

IsShown == (\A k \in DOMAIN toPhone : toPhone[k].says # "snapshot") => IsCurrent(view)

NoneToShow == \A k \in DOMAIN todo : ~Shows(todo[k])

ShownInv == ToBeShown /\ (NoneToShow => BeingShown /\ IsShown)

LEMMA ShownBlank ==
  ASSUME Blank
  PROVE  ShownInv
<1>1. DOMAIN todo = {} /\ DOMAIN toPhone = {} /\ view = {} /\ PendingIds = {}
  BY DEF Blank, NothingPending, PendingIds, PendingIn
<1> QED
  BY <1>1 DEF ShownInv, ToBeShown, BeingShown, IsShown, IsCurrent

(* A message is taken: the phone is behind by what a wrong decision took. *)
LEMMA ShownTaken ==
  ASSUME BaseInv, ShownInv, TakePhoneMessage
  PROVE  ShownInv'
<1>1. PICK m \in PhoneMessage :
           /\ m = Head(toBridge) /\ HandlePhoneMessage(m) /\ m.id \in DOMAIN asked
           /\ m = asked[m.id] /\ todo = <<>>
           /\ UNCHANGED <<asked, view, toPhone>>
  BY TakenMessage
<1>2. NoneToShow /\ UNCHANGED DecidedWrongly
  BY <1>1 DEF NoneToShow, DecidedWrongly
<1>3. CASE ForwardsIt(m)
  <2>1. \A k \in DOMAIN todo' : todo'[k].to = "codex"
    BY <1>3 DEF ForwardsIt
  <2>2. UNCHANGED PendingIds
    BY <1>3 DEF ForwardsIt, PendingIds
  <2> QED
    BY <1>1, <1>2, <2>1, <2>2
       DEF ShownInv, ToBeShown, BeingShown, IsShown, IsLastSnapshot, IsCurrent, Shows
<1>4. CASE AnswersIt(m)
  <2>1. PICK n \in Notice : /\ n.says = "snapshot" => n.pending = PendingIn(pending')
                            /\ todo' = <<[to |-> "phone", notice |-> n]>>
    BY <1>4 DEF AnswersIt
  <2>2. ToBeShown'
    BY <2>1 DEF ToBeShown, Shows, PendingIds
  <2>3. CASE n.says = "snapshot"
    <3>1. 1 \in DOMAIN todo' /\ Shows(todo'[1])
      BY <2>1, <2>3 DEF Shows
    <3> QED
      BY <2>2, <3>1 DEF ShownInv, NoneToShow
  <2>4. PendingIds' \ DecidedWrongly = PendingIds \ DecidedWrongly
    <3>1. CASE UNCHANGED pending
      BY <3>1 DEF PendingIds
    <3>2. CASE m.decision \notin Decisions /\ TakesOut(m)
      <4>1. m.request \in DecidedWrongly
        BY <1>1, <3>2 DEF TakesOut, DecidedWrongly
      <4>2. PendingIds' = PendingIds \ {m.request}
        BY <3>2 DEF TakesOut, PendingIds, PendingIn, BaseInv, TypeInv, BrokerTypeOK
      <4> QED
        BY <4>1, <4>2
    <3> QED
      BY <1>4, <3>1, <3>2 DEF AnswersIt
  <2> QED
    BY <1>1, <1>2, <2>2, <2>4
       DEF ShownInv, BeingShown, IsShown, IsLastSnapshot, IsCurrent
<1>5. CASE DecidesIt(m)
  <2>1. PICK x : todo' = DecisionList(m, x, pending')
    BY <1>5 DEF DecidesIt
  <2>2. /\ DOMAIN todo' = 1..4
        /\ todo'[1] = [to |-> "codex", line |-> x]
        /\ todo'[2] = [to |-> "audit", approvals |-> {}, decisions |-> <<x>>]
        /\ todo'[3] = [to |-> "phone", notice |-> Reply(m, "accepted")]
        /\ todo'[4] = [to |-> "phone", notice |-> Snapshot(0, pending')]
    BY <2>1, DecisionListIs
  <2>3. /\ Reply(m, "accepted").says = "accepted"
        /\ Snapshot(0, pending').says = "snapshot"
        /\ Snapshot(0, pending').pending = PendingIds'
    BY DEF Reply, Snapshot, PendingIds
  <2>4. 4 \in DOMAIN todo' /\ Shows(todo'[4])
    BY <2>2, <2>3 DEF Shows
  <2>5. ToBeShown'
    <3> SUFFICES ASSUME NEW k \in DOMAIN todo', Shows(todo'[k])
                 PROVE  todo'[k].notice.pending = PendingIds'
      BY DEF ToBeShown
    <3>1. k = 1 \/ k = 2 \/ k = 3 \/ k = 4
      BY <2>2
    <3>2. k # 1 /\ k # 2 /\ k # 3
      BY <2>2, <2>3 DEF Shows
    <3> QED
      BY <2>2, <2>3, <3>1, <3>2
  <2> QED
    BY <2>4, <2>5 DEF ShownInv, NoneToShow
<1> QED
  BY <1>1, <1>3, <1>4, <1>5, PhoneCases DEF BaseInv

LEMMA ShownReported ==
  ASSUME BaseInv, ShownInv, TakeCodexMessage
  PROVE  ShownInv'
<1>1. /\ (UNCHANGED pending /\ todo' = <<>>) \/ Reports(Head(inbound))
      /\ todo = <<>> /\ UNCHANGED <<asked, view, toPhone>>
  BY CodexCases DEF BaseInv
<1>2. CASE UNCHANGED pending /\ todo' = <<>>
  <2>1. UNCHANGED <<todo, PendingIds, DecidedWrongly>>
    BY <1>1, <1>2 DEF PendingIds, DecidedWrongly
  <2> QED
    BY <1>1, <2>1
       DEF ShownInv, NoneToShow, ToBeShown, BeingShown, IsShown, IsLastSnapshot, IsCurrent
<1>3. CASE Reports(Head(inbound))
  <2>1. PICK s : todo' = EventEffects(s, pending')
    BY <1>3 DEF Reports
  <2>2. /\ DOMAIN todo' = 1..2
        /\ todo'[1] = [to |-> "audit", approvals |-> s, decisions |-> <<>>]
        /\ todo'[2] = [to |-> "phone", notice |-> Snapshot(0, pending')]
    BY <2>1, EventListIs
  <2>3. Snapshot(0, pending').says = "snapshot" /\ Snapshot(0, pending').pending = PendingIds'
    BY DEF Snapshot, PendingIds
  <2>4. 2 \in DOMAIN todo' /\ Shows(todo'[2])
    BY <2>2, <2>3 DEF Shows
  <2>5. ToBeShown'
    BY <2>2, <2>3 DEF ToBeShown, Shows
  <2> QED
    BY <2>4, <2>5 DEF ShownInv, NoneToShow
<1> QED
  BY <1>1, <1>2, <1>3

LEMMA ShownEffects ==
  ASSUME BaseInv, ShownInv, SendToCodex \/ RecordEvents \/ QueueForPhone
  PROVE  ShownInv'
<1>0. /\ todo # <<>> /\ todo' = Tail(todo) /\ UNCHANGED <<asked, view, pending>>
      /\ \/ Head(todo).to # "phone" /\ UNCHANGED toPhone
         \/ Head(todo).to = "phone" /\ toPhone' = Append(toPhone, Head(todo).notice)
  BY DEF SendToCodex, RecordEvents, QueueForPhone, phoneVars, brokerVars
<1>1. UNCHANGED <<PendingIds, DecidedWrongly>>
  BY <1>0 DEF PendingIds, DecidedWrongly
<1>2. ToBeShown'
  BY <1>0, <1>1, TodoTaken DEF BaseInv, ShownInv, ToBeShown
<1>3. NoneToShow' /\ ~Shows(Head(todo)) => NoneToShow
  BY <1>0, TodoTaken DEF BaseInv, NoneToShow
<1>4. CASE ~Shows(Head(todo)) /\ UNCHANGED toPhone
  BY <1>0, <1>1, <1>2, <1>3, <1>4
     DEF ShownInv, BeingShown, IsShown, IsLastSnapshot, IsCurrent
<1>5. CASE Head(todo).to = "phone" /\ toPhone' = Append(toPhone, Head(todo).notice)
  <2> DEFINE n == Head(todo).notice
             z == Len(toPhone) + 1
  <2>1. n \in Notice /\ toPhone \in Seq(Notice)
    BY <1>0, <1>5, FirstEffect DEF BaseInv, TypeInv, PhoneTypeOK
  <2>2. /\ z \in DOMAIN toPhone' /\ toPhone'[z] = n /\ z \in Nat
        /\ \A k \in DOMAIN toPhone :
             k \in Nat /\ z > k /\ k \in DOMAIN toPhone' /\ toPhone'[k] = toPhone[k]
        /\ \A k \in DOMAIN toPhone' : k \in DOMAIN toPhone \/ k = z
    BY <1>5, <2>1, OneMore
  <2>3. CASE n.says = "snapshot"
    <3>1. n.pending = PendingIds
      <4>1. Head(todo) = todo[1] /\ 1 \in DOMAIN todo
        BY <1>0, TodoTaken DEF BaseInv
      <4> QED
        BY <1>5, <2>3, <4>1 DEF ShownInv, ToBeShown, Shows
    <3>2. \A k \in DOMAIN toPhone' : IsLastSnapshot(k)' => k = z
      BY <2>2, <2>3 DEF IsLastSnapshot
    <3>3. BeingShown' /\ IsShown'
      BY <1>1, <2>2, <2>3, <3>1, <3>2 DEF BeingShown, IsShown, IsCurrent
    <3> QED
      BY <1>2, <3>3 DEF ShownInv
  <2>4. CASE n.says # "snapshot"
    <3>1. NoneToShow' => NoneToShow
      BY <1>3, <2>4 DEF Shows
    <3>2. \A k \in DOMAIN toPhone' : IsLastSnapshot(k)' => k \in DOMAIN toPhone /\ IsLastSnapshot(k)
      BY <2>2, <2>4 DEF IsLastSnapshot
    <3>3. BeingShown => BeingShown'
      BY <1>1, <2>2, <3>2 DEF BeingShown, IsCurrent
    <3>4. IsShown => IsShown'
      BY <1>0, <1>1, <2>2 DEF IsShown, IsCurrent
    <3> QED
      BY <1>2, <3>1, <3>3, <3>4 DEF ShownInv
  <2> QED
    BY <2>3, <2>4
<1> QED
  BY <1>0, <1>4, <1>5 DEF Shows

LEMMA ShownPhone ==
  ASSUME BaseInv, ShownInv, PhoneSends \/ PhoneReads
  PROVE  ShownInv'
<1>1. CASE PhoneSends
  <2>1. PICK m \in PhoneMessage : asked' = Append(asked, m)
    BY <1>1 DEF PhoneSends
  <2>2. UNCHANGED <<todo, view, toPhone, pending>>
    BY <1>1 DEF PhoneSends, brokerVars
  <2>3. \A a \in DOMAIN asked : a \in DOMAIN asked' /\ asked'[a] = asked[a]
    BY <2>1, OneMore DEF BaseInv, TypeInv, PhoneTypeOK
  <2>4. DecidedWrongly \subseteq DecidedWrongly' /\ UNCHANGED PendingIds
    BY <2>2, <2>3 DEF DecidedWrongly, PendingIds
  <2>5. \A p : IsCurrent(p) => p \ DecidedWrongly' = PendingIds' \ DecidedWrongly'
    BY <2>4 DEF IsCurrent
  <2> QED
    BY <2>2, <2>4, <2>5
       DEF ShownInv, NoneToShow, ToBeShown, BeingShown, IsShown, IsLastSnapshot, IsCurrent
<1>2. CASE PhoneReads
  <2>1. PICK n \in Notice :
             /\ n = Head(toPhone) /\ toPhone # <<>> /\ toPhone' = Tail(toPhone)
             /\ view' = IF n.says = "snapshot" THEN n.pending ELSE view
             /\ UNCHANGED <<todo, asked, pending>>
    BY <1>2, ToPhoneTaken DEF PhoneReads, BaseInv, brokerVars
  <2>2. /\ n = toPhone[1] /\ 1 \in DOMAIN toPhone
        /\ \A k \in DOMAIN toPhone : k \in Nat \ {0}
        /\ \A k \in DOMAIN toPhone' :
             k \in Nat \ {0} /\ k + 1 \in DOMAIN toPhone /\ toPhone'[k] = toPhone[k + 1]
        /\ \A k \in DOMAIN toPhone :
             k # 1 => k - 1 \in DOMAIN toPhone' /\ toPhone'[k - 1] = toPhone[k]
    BY <2>1, ToPhoneTaken DEF BaseInv
  <2>3. UNCHANGED <<PendingIds, DecidedWrongly>>
    BY <2>1 DEF PendingIds, DecidedWrongly
  <2>4. BeingShown => BeingShown'
    <3> SUFFICES ASSUME BeingShown, NEW k \in DOMAIN toPhone', IsLastSnapshot(k)'
                 PROVE  IsCurrent(toPhone'[k].pending)
      BY <2>3 DEF BeingShown, IsCurrent
    <3>1. ASSUME NEW j \in DOMAIN toPhone, j > k + 1
          PROVE  toPhone[j].says # "snapshot"
      <4>1. /\ j \in Nat /\ k \in Nat
            /\ j # 1 => j - 1 \in DOMAIN toPhone' /\ toPhone'[j - 1] = toPhone[j]
        BY <2>2
      <4>2. j # 1 /\ j - 1 > k
        BY <2>2, <3>1, <4>1
      <4> QED
        BY <4>1, <4>2 DEF IsLastSnapshot
    <3>2. IsLastSnapshot(k + 1)
      BY <2>2, <3>1 DEF IsLastSnapshot
    <3> QED
      BY <2>2, <3>2 DEF BeingShown
  <2>5. BeingShown /\ IsShown => IsShown'
    <3> SUFFICES ASSUME BeingShown, IsShown,
                        \A k \in DOMAIN toPhone' : toPhone'[k].says # "snapshot"
                 PROVE  IsCurrent(view')
      BY <2>3 DEF IsShown, IsCurrent
    <3>1. \A j \in DOMAIN toPhone : j # 1 => toPhone[j].says # "snapshot"
      BY <2>2
    <3>2. CASE n.says = "snapshot"
      <4>1. IsLastSnapshot(1)
        BY <2>2, <3>1, <3>2 DEF IsLastSnapshot
      <4> QED
        BY <2>1, <2>2, <3>2, <4>1 DEF BeingShown
    <3>3. CASE n.says # "snapshot"
      BY <2>1, <2>2, <3>1, <3>3 DEF IsShown
    <3> QED
      BY <3>2, <3>3
  <2> QED
    BY <2>1, <2>3, <2>4, <2>5 DEF ShownInv, NoneToShow, ToBeShown
<1> QED
  BY <1>1, <1>2

LEMMA ShownStep ==
  ASSUME BaseInv, ShownInv, [Next]_vars
  PROVE  ShownInv'
<1>1. CASE EndRun
  <2>1. DOMAIN todo' = {} /\ DOMAIN toPhone' = {} /\ view' = {} /\ PendingIds' = {}
    BY <1>1, EndRunBlank DEF Blank, NothingPending, PendingIds, PendingIn
  <2> QED
    BY <2>1 DEF ShownInv, ToBeShown, BeingShown, IsShown, IsCurrent
<1>2. CASE Idle
  <2>1. UNCHANGED <<todo, toPhone, view, PendingIds, DecidedWrongly>>
    BY <1>2, IdleKeeps DEF PendingIds, DecidedWrongly
  <2> QED
    BY <2>1 DEF ShownInv, NoneToShow, ToBeShown, BeingShown, IsShown, IsLastSnapshot, IsCurrent
<1> QED
  BY <1>1, <1>2, ShownTaken, ShownReported, ShownEffects, ShownPhone, TheSteps

(***************************************************************************)
(* A phone that has applied everything it was sent shows what is pending,  *)
(* but for what a wrong decision took out (on_application_message and the  *)
(* handling of App Server messages in run_bridge_service).                 *)
(***************************************************************************)
THEOREM PhoneShowsPending == Spec => []ViewIsCurrent
<1>1. Init => BaseInv /\ ShownInv
  BY BaseInit, InitBlank, ShownBlank
<1>2. BaseInv /\ ShownInv /\ [Next]_vars => (BaseInv /\ ShownInv)'
  BY BaseStep, ShownStep
<1>3. BaseInv /\ ShownInv => ViewIsCurrent
  <2> SUFFICES ASSUME BaseInv, ShownInv, pc = "top", toPhone = <<>>
               PROVE  IsCurrent(view)
    BY DEF ViewIsCurrent, IsCurrent
  <2>1. DOMAIN todo = {} /\ DOMAIN toPhone = {}
    BY DEF BaseInv, Phases
  <2> QED
    BY <2>1 DEF ShownInv, NoneToShow, IsShown
<1> QED
  BY <1>1, <1>2, <1>3, PTL DEF Spec

-----------------------------------------------------------------------------
(***************************************************************************)
(* Every request is answered once.  An answer, still to be queued, queued  *)
(* or read, is to a message the bridge has taken, and there is one; a      *)
(* request that was taken has one.                                         *)
(***************************************************************************)
Replies(e) == e.to = "phone" /\ e.notice.id # 0

ToReplyOnce ==
  \A j \in DOMAIN todo :
    Replies(todo[j]) =>
      LET a == todo[j].notice.id IN
      /\ a <= Handled /\ reply[a] = Unanswered
      /\ \A k \in DOMAIN toPhone : toPhone[k].id # a
      /\ \A k \in DOMAIN todo : Replies(todo[k]) /\ todo[k].notice.id = a => j = k

ReplyingOnce ==
  \A j \in DOMAIN toPhone :
    toPhone[j].id # 0 =>
      /\ toPhone[j].id <= Handled /\ reply[toPhone[j].id] = Unanswered
      /\ \A k \in DOMAIN toPhone : toPhone[k].id = toPhone[j].id => j = k

RepliedToHandled == \A a \in Asks : reply[a] # Unanswered => a <= Handled

Owed(a) ==
  \/ reply[a] # Unanswered
  \/ a > Handled
  \/ \E k \in DOMAIN toPhone : toPhone[k].id = a
  \/ \E k \in DOMAIN todo : Replies(todo[k]) /\ todo[k].notice.id = a

AllOwed == \A a \in DOMAIN asked : Promised(a) => Owed(a)

ReplyInv == ToReplyOnce /\ ReplyingOnce /\ RepliedToHandled /\ AllOwed

LEMMA ReplyTaken ==
  ASSUME BaseInv, ReplyInv, TakePhoneMessage
  PROVE  ReplyInv'
<1>1. PICK m \in PhoneMessage :
           /\ m = Head(toBridge) /\ HandlePhoneMessage(m) /\ m.id \in DOMAIN asked
           /\ m = asked[m.id] /\ todo = <<>>
           /\ m.id = Handled + 1 /\ Handled' = Handled + 1 /\ Handled \in Nat
           /\ UNCHANGED <<asked, reply, toPhone>>
           /\ ForwardsIt(m) => m.method = "initialized" \/ m.id \in relayed'
           /\ relayed \subseteq relayed'
  BY TakenMessage, PhoneCases DEF BaseInv
<1>2. DOMAIN todo = {} /\ m.id \in Asks /\ \A a \in Asks : a \in Nat
  BY <1>1, PhoneMessageShape, BridgeBoundsAssumption DEF Asks
<1>3. /\ reply[m.id] = Unanswered
      /\ \A k \in DOMAIN toPhone : toPhone[k].id # m.id
  <2>1. ~(m.id <= Handled) /\ m.id # 0
    BY <1>1
  <2> QED
    BY <1>2, <2>1 DEF ReplyInv, RepliedToHandled, ReplyingOnce
<1>4. RepliedToHandled'
  BY <1>1, <1>2 DEF ReplyInv, RepliedToHandled
<1>5. ReplyingOnce'
  <2>1. \A j \in DOMAIN toPhone : toPhone[j].id \in Nat
    <3>1. \A j \in DOMAIN toPhone : toPhone[j] \in Notice
      BY DEF BaseInv, TypeInv, PhoneTypeOK
    <3> QED
      BY <3>1, BridgeBoundsAssumption DEF Notice
  <2> QED
    BY <1>1, <2>1 DEF ReplyInv, ReplyingOnce
<1>6. \A a \in DOMAIN asked :
        a # m.id /\ Promised(a)' =>
          \/ reply'[a] # Unanswered
          \/ a > Handled'
          \/ \E k \in DOMAIN toPhone' : toPhone'[k].id = a
  <2>1. \A a \in DOMAIN asked : a \in Nat
    BY DEF BaseInv, TypeInv, PhoneTypeOK
  <2>2. \A a \in DOMAIN asked : a # m.id /\ a > Handled => a > Handled'
    BY <1>1, <2>1
  <2> QED
    BY <1>1, <1>2, <2>2 DEF ReplyInv, AllOwed, Owed, Promised
<1>7. CASE ForwardsIt(m)
  <2>1. \A k \in DOMAIN todo' : todo'[k].to = "codex"
    BY <1>7 DEF ForwardsIt
  <2>2. ToReplyOnce'
    BY <2>1 DEF ToReplyOnce, Replies
  <2>3. ~Promised(m.id)'
    BY <1>1, <1>7 DEF Promised, Requests
  <2>4. AllOwed'
    BY <1>1, <1>6, <2>3 DEF AllOwed, Owed
  <2> QED
    BY <1>4, <1>5, <2>2, <2>4 DEF ReplyInv
<1>8. ASSUME NEW i \in DOMAIN todo', Replies(todo'[i]), todo'[i].notice.id = m.id,
             \A k \in DOMAIN todo' : Replies(todo'[k]) => k = i
      PROVE  ReplyInv'
  <2>1. ToReplyOnce'
    <3> SUFFICES ASSUME NEW j \in DOMAIN todo', Replies(todo'[j])
                 PROVE  LET a == todo'[j].notice.id IN
                        /\ a <= Handled' /\ reply'[a] = Unanswered
                        /\ \A k \in DOMAIN toPhone' : toPhone'[k].id # a
                        /\ \A k \in DOMAIN todo' :
                             Replies(todo'[k]) /\ todo'[k].notice.id = a => j = k
      BY DEF ToReplyOnce
    <3>1. j = i
      BY <1>8
    <3>2. m.id <= Handled'
      BY <1>1
    <3> QED
      BY <1>1, <1>3, <1>8, <3>1, <3>2
  <2>2. AllOwed'
    BY <1>1, <1>6, <1>8 DEF AllOwed, Owed
  <2> QED
    BY <1>4, <1>5, <2>1, <2>2 DEF ReplyInv
<1>9. CASE AnswersIt(m)
  <2>1. PICK n \in Notice : n.id = m.id /\ todo' = <<[to |-> "phone", notice |-> n]>>
    BY <1>9 DEF AnswersIt
  <2>2. m.id # 0
    BY <1>1
  <2>3. DOMAIN todo' = {1} /\ todo'[1] = [to |-> "phone", notice |-> n]
    BY <2>1
  <2> QED
    BY <1>8, <2>1, <2>2, <2>3 DEF Replies
<1>10. CASE DecidesIt(m)
  <2>1. PICK x : todo' = DecisionList(m, x, pending')
    BY <1>10 DEF DecidesIt
  <2>2. /\ DOMAIN todo' = 1..4
        /\ todo'[1] = [to |-> "codex", line |-> x]
        /\ todo'[2] = [to |-> "audit", approvals |-> {}, decisions |-> <<x>>]
        /\ todo'[3] = [to |-> "phone", notice |-> Reply(m, "accepted")]
        /\ todo'[4] = [to |-> "phone", notice |-> Snapshot(0, pending')]
    BY <2>1, DecisionListIs
  <2>3. Reply(m, "accepted").id = m.id /\ Snapshot(0, pending').id = 0 /\ m.id # 0
    BY <1>1 DEF Reply, Snapshot
  <2>4. 3 \in DOMAIN todo' /\ Replies(todo'[3]) /\ todo'[3].notice.id = m.id
    BY <2>2, <2>3 DEF Replies
  <2>5. \A k \in DOMAIN todo' : Replies(todo'[k]) => k = 3
    <3> SUFFICES ASSUME NEW k \in DOMAIN todo', Replies(todo'[k])
                 PROVE  k = 3
      OBVIOUS
    <3>1. k = 1 \/ k = 2 \/ k = 3 \/ k = 4
      BY <2>2
    <3>2. k # 1 /\ k # 2 /\ k # 4
      BY <2>2, <2>3 DEF Replies
    <3> QED
      BY <3>1, <3>2
  <2> QED
    BY <1>8, <2>4, <2>5
<1> QED
  BY <1>1, <1>7, <1>9, <1>10, PhoneCases DEF BaseInv

LEMMA ReplyReported ==
  ASSUME BaseInv, ReplyInv, TakeCodexMessage
  PROVE  ReplyInv'
<1>0. UNCHANGED relayed
  BY DEF TakeCodexMessage, HandleCodexMessage, TrackCodexHandshake, runtimeVars
<1>1. /\ todo' = <<>> \/ Reports(Head(inbound))
      /\ todo = <<>> /\ UNCHANGED <<asked, reply, toPhone, toBridge>>
  BY CodexCases DEF BaseInv
<1>2. DOMAIN todo = {} /\ UNCHANGED Handled
  BY <1>1 DEF Handled
<1>3. \A k \in DOMAIN todo' : ~Replies(todo'[k])
  <2>1. CASE todo' = <<>>
    BY <2>1
  <2>2. CASE Reports(Head(inbound))
    <3>1. PICK s : todo' = EventEffects(s, pending')
      BY <2>2 DEF Reports
    <3>2. /\ DOMAIN todo' = 1..2
          /\ todo'[1] = [to |-> "audit", approvals |-> s, decisions |-> <<>>]
          /\ todo'[2] = [to |-> "phone", notice |-> Snapshot(0, pending')]
      BY <3>1, EventListIs
    <3>3. Snapshot(0, pending').id = 0
      BY DEF Snapshot
    <3> QED
      BY <3>2, <3>3 DEF Replies
  <2> QED
    BY <1>1, <2>1, <2>2
<1> QED
  BY <1>0, <1>1, <1>2, <1>3
     DEF ReplyInv, ToReplyOnce, ReplyingOnce, RepliedToHandled, AllOwed, Owed, Promised

LEMMA ReplyEffects ==
  ASSUME BaseInv, ReplyInv, SendToCodex \/ RecordEvents \/ QueueForPhone
  PROVE  ReplyInv'
<1>0. /\ todo # <<>> /\ todo' = Tail(todo) /\ UNCHANGED <<asked, reply, toBridge, relayed>>
      /\ \/ Head(todo).to # "phone" /\ UNCHANGED toPhone
         \/ Head(todo).to = "phone" /\ toPhone' = Append(toPhone, Head(todo).notice)
  BY DEF SendToCodex, RecordEvents, QueueForPhone, phoneVars, runtimeVars
<1>1. UNCHANGED Handled
  BY <1>0 DEF Handled
<1>2. /\ Head(todo) = todo[1] /\ 1 \in DOMAIN todo
      /\ \A k \in DOMAIN todo : k \in Nat \ {0}
      /\ \A k \in DOMAIN todo' : k \in Nat \ {0} /\ k + 1 \in DOMAIN todo /\ todo'[k] = todo[k + 1]
      /\ \A k \in DOMAIN todo : k # 1 => k - 1 \in DOMAIN todo' /\ todo'[k - 1] = todo[k]
  BY <1>0, TodoTaken DEF BaseInv
<1>3. \A j, k \in DOMAIN todo' : j + 1 = k + 1 => j = k
  BY <1>2
<1>4. RepliedToHandled'
  BY <1>0, <1>1 DEF ReplyInv, RepliedToHandled
<1>5. CASE Head(todo).to # "phone" /\ UNCHANGED toPhone
  <2>1. ~Replies(todo[1])
    BY <1>2, <1>5 DEF Replies
  <2>2. ToReplyOnce'
    <3> SUFFICES ASSUME NEW j \in DOMAIN todo', Replies(todo'[j])
                 PROVE  LET a == todo'[j].notice.id IN
                        /\ a <= Handled' /\ reply'[a] = Unanswered
                        /\ \A k \in DOMAIN toPhone' : toPhone'[k].id # a
                        /\ \A k \in DOMAIN todo' :
                             Replies(todo'[k]) /\ todo'[k].notice.id = a => j = k
      BY DEF ToReplyOnce
    <3> DEFINE a == todo'[j].notice.id
    <3>1. /\ j + 1 \in DOMAIN todo /\ todo'[j] = todo[j + 1]
          /\ Replies(todo[j + 1]) /\ a = todo[j + 1].notice.id
      BY <1>2
    <3>2. /\ a <= Handled /\ reply[a] = Unanswered
          /\ \A k \in DOMAIN toPhone : toPhone[k].id # a
          /\ \A k \in DOMAIN todo : Replies(todo[k]) /\ todo[k].notice.id = a => j + 1 = k
      BY <3>1 DEF ReplyInv, ToReplyOnce
    <3>3. \A k \in DOMAIN todo' : Replies(todo'[k]) /\ todo'[k].notice.id = a => j = k
      BY <1>2, <1>3, <3>2
    <3>4. UNCHANGED <<Handled, reply, toPhone>>
      BY <1>0, <1>1, <1>5
    <3> QED
      BY <3>2, <3>3, <3>4
  <2>3. AllOwed'
    <3> SUFFICES ASSUME NEW a \in DOMAIN asked, Promised(a)
                 PROVE  Owed(a)'
      BY <1>0 DEF AllOwed, Promised
    <3>1. Owed(a) /\ UNCHANGED <<Handled, reply, toPhone>>
      BY <1>0, <1>1, <1>5 DEF ReplyInv, AllOwed
    <3>2. CASE \E k \in DOMAIN todo : Replies(todo[k]) /\ todo[k].notice.id = a
      <4>1. PICK k \in DOMAIN todo : Replies(todo[k]) /\ todo[k].notice.id = a
        BY <3>2
      <4>2. k - 1 \in DOMAIN todo' /\ todo'[k - 1] = todo[k]
        BY <1>2, <2>1, <4>1
      <4> QED
        BY <4>1, <4>2 DEF Owed
    <3> QED
      BY <3>1, <3>2 DEF Owed
  <2>4. ReplyingOnce'
    BY <1>0, <1>1, <1>5 DEF ReplyInv, ReplyingOnce
  <2> QED
    BY <1>4, <2>2, <2>3, <2>4 DEF ReplyInv
<1>6. CASE Head(todo).to = "phone" /\ toPhone' = Append(toPhone, Head(todo).notice)
  <2> DEFINE z == Len(toPhone) + 1
  <2>0. PICK n \in Notice : n = Head(todo).notice /\ toPhone' = Append(toPhone, n)
    BY <1>0, <1>6, FirstEffect DEF BaseInv
  <2>1. toPhone \in Seq(Notice)
    BY DEF BaseInv, TypeInv, PhoneTypeOK
  <2>2. /\ z \in DOMAIN toPhone' /\ toPhone'[z] = n
        /\ \A k \in DOMAIN toPhone : k \in DOMAIN toPhone' /\ toPhone'[k] = toPhone[k] /\ k # z
        /\ \A k \in DOMAIN toPhone' : k \in DOMAIN toPhone \/ k = z
    BY <2>0, <2>1, OneMore
  <2>3. n.id # 0 => /\ Replies(todo[1]) /\ todo[1].notice.id = n.id
                    /\ n.id <= Handled /\ reply[n.id] = Unanswered
                    /\ \A k \in DOMAIN toPhone : toPhone[k].id # n.id
    BY <1>2, <1>6, <2>0 DEF ReplyInv, ToReplyOnce, Replies
  <2>4. ReplyingOnce'
    <3> SUFFICES ASSUME NEW j \in DOMAIN toPhone', toPhone'[j].id # 0
                 PROVE  /\ toPhone'[j].id <= Handled' /\ reply'[toPhone'[j].id] = Unanswered
                        /\ \A k \in DOMAIN toPhone' : toPhone'[k].id = toPhone'[j].id => j = k
      BY DEF ReplyingOnce
    <3>1. CASE j \in DOMAIN toPhone
      <4>1. /\ toPhone[j].id <= Handled /\ reply[toPhone[j].id] = Unanswered
            /\ \A k \in DOMAIN toPhone : toPhone[k].id = toPhone[j].id => j = k
        BY <2>2, <3>1 DEF ReplyInv, ReplyingOnce
      <4>2. n.id # toPhone[j].id
        BY <2>2, <2>3, <3>1
      <4> QED
        BY <1>0, <1>1, <2>2, <3>1, <4>1, <4>2
    <3>2. CASE j = z
      BY <1>0, <1>1, <2>2, <2>3, <3>2
    <3> QED
      BY <2>2, <3>1, <3>2
  <2>5. ToReplyOnce'
    <3> SUFFICES ASSUME NEW j \in DOMAIN todo', Replies(todo'[j])
                 PROVE  LET a == todo'[j].notice.id IN
                        /\ a <= Handled' /\ reply'[a] = Unanswered
                        /\ \A k \in DOMAIN toPhone' : toPhone'[k].id # a
                        /\ \A k \in DOMAIN todo' :
                             Replies(todo'[k]) /\ todo'[k].notice.id = a => j = k
      BY DEF ToReplyOnce
    <3> DEFINE a == todo'[j].notice.id
    <3>1. /\ j + 1 \in DOMAIN todo /\ todo'[j] = todo[j + 1] /\ j + 1 # 1
          /\ Replies(todo[j + 1]) /\ a = todo[j + 1].notice.id /\ a # 0
      BY <1>2 DEF Replies
    <3>2. /\ a <= Handled /\ reply[a] = Unanswered
          /\ \A k \in DOMAIN toPhone : toPhone[k].id # a
          /\ \A k \in DOMAIN todo : Replies(todo[k]) /\ todo[k].notice.id = a => j + 1 = k
      BY <3>1 DEF ReplyInv, ToReplyOnce
    <3>3. n.id # a
      BY <1>2, <2>3, <3>1, <3>2
    <3>4. \A k \in DOMAIN todo' : Replies(todo'[k]) /\ todo'[k].notice.id = a => j = k
      BY <1>2, <1>3, <3>2
    <3> QED
      BY <1>0, <1>1, <2>2, <3>2, <3>3, <3>4
  <2>6. AllOwed'
    <3> SUFFICES ASSUME NEW a \in DOMAIN asked, Promised(a)
                 PROVE  Owed(a)'
      BY <1>0 DEF AllOwed, Promised
    <3>1. Owed(a)
      BY DEF ReplyInv, AllOwed
    <3>2. CASE \E k \in DOMAIN todo : Replies(todo[k]) /\ todo[k].notice.id = a
      <4>1. PICK k \in DOMAIN todo : Replies(todo[k]) /\ todo[k].notice.id = a
        BY <3>2
      <4>2. CASE k = 1
        BY <1>2, <2>0, <2>2, <4>1, <4>2 DEF Owed
      <4>3. CASE k # 1
        BY <1>2, <4>1, <4>3 DEF Owed
      <4> QED
        BY <4>2, <4>3
    <3> QED
      BY <1>0, <1>1, <2>2, <3>1, <3>2 DEF Owed
  <2> QED
    BY <1>4, <2>4, <2>5, <2>6 DEF ReplyInv
<1> QED
  BY <1>0, <1>5, <1>6

LEMMA ReplyPhone ==
  ASSUME BaseInv, ReplyInv, PhoneSends \/ PhoneReads
  PROVE  ReplyInv'
<1>1. CASE PhoneSends
  <2>1. PICK m \in PhoneMessage : toBridge' = Append(toBridge, m) /\ asked' = Append(asked, m)
    BY <1>1 DEF PhoneSends
  <2>2. asked \in Seq(PhoneMessage) /\ toBridge \in Seq(PhoneMessage)
    BY DEF BaseInv, TypeInv, PhoneTypeOK
  <2>3. /\ Len(asked) \in Nat /\ Len(asked') = Len(asked) + 1
        /\ Len(toBridge) \in Nat /\ Len(toBridge') = Len(toBridge) + 1
        /\ \A k \in DOMAIN asked : asked'[k] = asked[k]
        /\ \A k \in DOMAIN asked' : k \in DOMAIN asked \/ k = Len(asked) + 1
    BY <2>1, <2>2, OneMore
  <2>4. Handled' = Handled /\ Len(asked) + 1 > Handled
    BY <2>3 DEF Handled
  <2>5. UNCHANGED <<todo, reply, toPhone, relayed>>
    BY <1>1 DEF PhoneSends, runtimeVars
  <2>6. ToReplyOnce' /\ ReplyingOnce' /\ RepliedToHandled'
    BY <2>4, <2>5 DEF ReplyInv, ToReplyOnce, ReplyingOnce, RepliedToHandled
  <2>7. AllOwed'
    <3> SUFFICES ASSUME NEW a \in DOMAIN asked', Promised(a)'
                 PROVE  Owed(a)'
      BY DEF AllOwed
    <3>1. CASE a \in DOMAIN asked
      <4>1. Owed(a)
        BY <2>3, <2>5, <3>1 DEF ReplyInv, AllOwed, Promised
      <4> QED
        BY <2>4, <2>5, <4>1 DEF Owed
    <3>2. CASE a = Len(asked) + 1
      BY <2>4, <3>2 DEF Owed
    <3> QED
      BY <2>3, <3>1, <3>2
  <2> QED
    BY <2>6, <2>7 DEF ReplyInv
<1>2. CASE PhoneReads
  <2>1. PICK n \in Notice :
             /\ n = Head(toPhone) /\ toPhone # <<>> /\ toPhone' = Tail(toPhone)
             /\ reply' = IF n.id # 0 THEN [reply EXCEPT ![n.id] = n.says] ELSE reply
             /\ UNCHANGED <<todo, asked, toBridge, relayed>>
    BY <1>2, ToPhoneTaken DEF PhoneReads, BaseInv, runtimeVars
  <2>2. /\ n = toPhone[1] /\ 1 \in DOMAIN toPhone
        /\ \A k \in DOMAIN toPhone' :
             k \in Nat \ {0} /\ k + 1 \in DOMAIN toPhone /\ toPhone'[k] = toPhone[k + 1]
        /\ \A k \in DOMAIN toPhone :
             k # 1 => k - 1 \in DOMAIN toPhone' /\ toPhone'[k - 1] = toPhone[k]
    BY <2>1, ToPhoneTaken DEF BaseInv
  <2>3. UNCHANGED Handled
    BY <2>1 DEF Handled
  <2>4. n.id \in 0..MaxAsks /\ n.says # Unanswered
    BY DEF Notice, Answers, Unanswered
  <2>5. n.id # 0 => n.id \in Asks /\ n.id <= Handled
    <3>1. n.id # 0 => n.id \in Asks
      BY <2>4, BridgeBoundsAssumption DEF Asks
    <3>2. n.id # 0 => n.id <= Handled
      BY <2>2 DEF ReplyInv, ReplyingOnce
    <3> QED
      BY <3>1, <3>2
  <2>6. /\ n.id # 0 => reply'[n.id] = n.says
        /\ \A a : a # n.id => reply'[a] = reply[a]
        /\ n.id = 0 => reply' = reply
    BY <2>1, <2>5 DEF BaseInv, TypeInv, PhoneTypeOK
  <2>7. \A j, k \in DOMAIN toPhone' : j + 1 = k + 1 => j = k
    BY <2>2
  <2>8. RepliedToHandled'
    BY <2>3, <2>5, <2>6 DEF ReplyInv, RepliedToHandled
  <2>9. ReplyingOnce'
    <3> SUFFICES ASSUME NEW j \in DOMAIN toPhone', toPhone'[j].id # 0
                 PROVE  /\ toPhone'[j].id <= Handled' /\ reply'[toPhone'[j].id] = Unanswered
                        /\ \A k \in DOMAIN toPhone' : toPhone'[k].id = toPhone'[j].id => j = k
      BY DEF ReplyingOnce
    <3>1. j + 1 \in DOMAIN toPhone /\ toPhone'[j] = toPhone[j + 1] /\ j + 1 # 1
      BY <2>2
    <3>2. /\ toPhone[j + 1].id <= Handled /\ reply[toPhone[j + 1].id] = Unanswered
          /\ \A k \in DOMAIN toPhone : toPhone[k].id = toPhone[j + 1].id => j + 1 = k
      BY <3>1 DEF ReplyInv, ReplyingOnce
    <3>3. n.id # toPhone'[j].id
      BY <2>2, <3>1, <3>2
    <3>4. \A k \in DOMAIN toPhone' : toPhone'[k].id = toPhone'[j].id => j = k
      BY <2>2, <2>7, <3>1, <3>2
    <3> QED
      BY <2>3, <2>6, <3>1, <3>2, <3>3, <3>4
  <2>10. ToReplyOnce'
    <3> SUFFICES ASSUME NEW j \in DOMAIN todo, Replies(todo[j])
                 PROVE  LET a == todo[j].notice.id IN
                        /\ a <= Handled /\ reply'[a] = Unanswered
                        /\ \A k \in DOMAIN toPhone' : toPhone'[k].id # a
                        /\ \A k \in DOMAIN todo :
                             Replies(todo[k]) /\ todo[k].notice.id = a => j = k
      BY <2>1, <2>3 DEF ToReplyOnce
    <3> DEFINE a == todo[j].notice.id
    <3>1. /\ a <= Handled /\ reply[a] = Unanswered
          /\ \A k \in DOMAIN toPhone : toPhone[k].id # a
          /\ \A k \in DOMAIN todo : Replies(todo[k]) /\ todo[k].notice.id = a => j = k
      BY DEF ReplyInv, ToReplyOnce
    <3>2. n.id # a
      BY <2>2, <3>1
    <3> QED
      BY <2>2, <2>6, <3>1, <3>2
  <2>11. AllOwed'
    <3> SUFFICES ASSUME NEW a \in DOMAIN asked, Promised(a)
                 PROVE  Owed(a)'
      BY <2>1 DEF AllOwed, Promised
    <3>1. Owed(a) /\ a # 0
      BY DEF ReplyInv, AllOwed, BaseInv, TypeInv, PhoneTypeOK
    <3>2. CASE a = n.id
      BY <2>4, <2>6, <3>1, <3>2 DEF Owed
    <3>3. CASE a # n.id
      <4>1. CASE \E k \in DOMAIN toPhone : toPhone[k].id = a
        <5>1. PICK k \in DOMAIN toPhone : toPhone[k].id = a
          BY <4>1
        <5>2. k # 1
          BY <2>2, <3>3, <5>1
        <5> QED
          BY <2>2, <5>1, <5>2 DEF Owed
      <4> QED
        BY <2>1, <2>3, <2>6, <3>1, <3>3, <4>1 DEF Owed
    <3> QED
      BY <3>2, <3>3
  <2> QED
    BY <2>8, <2>9, <2>10, <2>11 DEF ReplyInv
<1> QED
  BY <1>1, <1>2

LEMMA ReplyStep ==
  ASSUME BaseInv, ReplyInv, [Next]_vars
  PROVE  ReplyInv'
<1>1. CASE EndRun
  <2>1. /\ DOMAIN todo' = {} /\ DOMAIN toPhone' = {} /\ DOMAIN asked' = {}
        /\ \A a \in Asks : reply'[a] = Unanswered
    BY <1>1, EndRunBlank DEF Blank
  <2> QED
    BY <2>1 DEF ReplyInv, ToReplyOnce, ReplyingOnce, RepliedToHandled, AllOwed
<1>2. CASE Idle
  <2>1. UNCHANGED <<todo, toPhone, asked, reply, relayed, Handled>>
    BY <1>2, IdleKeeps DEF Handled
  <2> QED
    BY <2>1 DEF ReplyInv, ToReplyOnce, ReplyingOnce, RepliedToHandled, AllOwed, Owed,
             Promised
<1> QED
  BY <1>1, <1>2, ReplyTaken, ReplyReported, ReplyEffects, ReplyPhone, TheSteps

(***************************************************************************)
(* No request of the phone is answered twice, and none is left unanswered  *)
(* once nothing is on its way, except for an `initialize' this run has     *)
(* forwarded to the App Server: one that the bridge answers itself, being  *)
(* warm, is in (handle_phone_message).                                     *)
(***************************************************************************)
THEOREM EachAnsweredOnce == Spec => []RequestsAnswered
<1>1. Init => BaseInv /\ ReplyInv
  <2> SUFFICES ASSUME Init PROVE ReplyInv
    BY BaseInit
  <2>1. /\ DOMAIN todo = {} /\ DOMAIN toPhone = {} /\ DOMAIN asked = {}
        /\ \A a \in Asks : reply[a] = Unanswered
    BY InitBlank DEF Blank
  <2> QED
    BY <2>1 DEF ReplyInv, ToReplyOnce, ReplyingOnce, RepliedToHandled, AllOwed
<1>2. BaseInv /\ ReplyInv /\ [Next]_vars => (BaseInv /\ ReplyInv)'
  BY BaseStep, ReplyStep
<1>3. BaseInv /\ ReplyInv => RequestsAnswered
  <2> SUFFICES ASSUME BaseInv, ReplyInv PROVE RequestsAnswered
    OBVIOUS
  <2>1. NotTwice
    BY DEF ReplyInv, ReplyingOnce, NotTwice
  <2>2. ASSUME Quiet, NEW a \in DOMAIN asked, Promised(a)
        PROVE  reply[a] # Unanswered
    <3>1. /\ todo = <<>> /\ toPhone = <<>> /\ toBridge = <<>> /\ asked \in Seq(PhoneMessage)
      BY <2>2 DEF Quiet, BaseInv, Phases, TypeInv, PhoneTypeOK
    <3>2. Handled = Len(asked) /\ ~(a > Handled)
      BY <3>1 DEF Handled
    <3>3. DOMAIN todo = {} /\ DOMAIN toPhone = {}
      BY <3>1
    <3> QED
      BY <2>2, <3>2, <3>3 DEF ReplyInv, AllOwed, Owed
  <2> QED
    BY <2>1, <2>2 DEF RequestsAnswered
<1> QED
  BY <1>1, <1>2, <1>3, PTL DEF Spec


-----------------------------------------------------------------------------
(***************************************************************************)
(* The steps of the App Server, as far as the requests it waits on go: it  *)
(* makes one, closes one, closes those of an item, or does neither.        *)
(***************************************************************************)
TakesLine == outbound # <<>> /\ outbound' = Tail(outbound)

CodexOpens(w) ==
  /\ codex[w] = "idle" /\ codex' = [codex EXCEPT ![w] = "open"]
  /\ itemState[ItemOf[w]] # "completed" /\ UNCHANGED <<itemState, outbound>>
  /\ Emit([method |-> "requestApproval", wire |-> w])

CodexCloses(w) ==
  /\ codex[w] = "open" /\ codex' = [codex EXCEPT ![w] = "closed"]
  /\ UNCHANGED itemState
  /\ Emit([method |-> "serverRequest/resolved", wire |-> w])
  /\ UNCHANGED outbound \/ (TakesLine /\ Head(outbound).wire = w)

OfNoRequest(m) ==
  /\ \A w \in WireIds : ~IsApproval(m, w) /\ ~IsResolved(m, w)
  /\ \A i \in Items : ~IsCompleted(m, i)

CodexElsewhere ==
  /\ UNCHANGED codex
  /\ \A i \in Items : itemState'[i] = "completed" <=> itemState[i] = "completed"
  /\ UNCHANGED inbound \/ \E m \in Inbound : OfNoRequest(m) /\ Emit(m)
  /\ \/ UNCHANGED outbound
     \/ TakesLine /\ (Head(outbound) \in Answer => codex[Head(outbound).wire] # "open")

LEMMA ForwardNoAnswer == \A x \in Forward : x \notin Answer
<1> SUFFICES ASSUME NEW x \in Forward, x \in Answer PROVE FALSE
  OBVIOUS
<1>1. DOMAIN x = {"method", "id"} /\ DOMAIN x = {"wire", "decision"}
  BY DEF Forward, Answer
<1> QED
  BY <1>1

LEMMA CodexMoves ==
  ASSUME TypeInv, CodexStep \/ TakeForward
  PROVE  \/ \E w \in WireIds : CodexOpens(w) \/ CodexCloses(w)
         \/ \E i \in Items : CompleteItem(i)
         \/ CodexElsewhere
<1> USE DEF IsApproval, IsResolved, IsCompleted
<1>1. ASSUME NEW i \in Items, StartItem(i) \/ ReportItem(i)
      PROVE  CodexElsewhere
  <2>1. UNCHANGED <<codex, outbound>>
    BY <1>1 DEF StartItem, ReportItem
  <2>2. \A j \in Items : itemState'[j] = "completed" <=> itemState[j] = "completed"
    BY <1>1 DEF StartItem, ReportItem, TypeInv, CodexTypes, TurnTypeOK
  <2>3. \/ Emit([method |-> "item/started", item |-> i])
        \/ Emit([method |-> "item/completed", item |-> i, status |-> "inProgress"])
    BY <1>1 DEF StartItem, ReportItem
  <2>4. /\ OfNoRequest([method |-> "item/started", item |-> i])
        /\ OfNoRequest([method |-> "item/completed", item |-> i, status |-> "inProgress"])
    BY DEF OfNoRequest
  <2>5. \E m \in Inbound : OfNoRequest(m) /\ Emit(m)
    BY <2>3, <2>4, InboundTypes DEF Inbound
  <2> QED
    BY <2>1, <2>2, <2>5 DEF CodexElsewhere
<1>2. ASSUME NEW w \in WireIds, RequestApproval(w)
      PROVE  CodexOpens(w)
  BY <1>2 DEF RequestApproval, CodexOpens
<1>3. ASSUME NEW w \in WireIds, WithdrawRequest(w)
      PROVE  CodexCloses(w)
  BY <1>3 DEF WithdrawRequest, CodexCloses
<1>4. CASE TakeDecision
  <2>1. Head(outbound).wire \in WireIds
    BY <1>4, OutboundTaken DEF TakeDecision, TypeInv
  <2> QED
    BY <1>4, <2>1 DEF TakeDecision, CodexCloses, TakesLine
<1>5. CASE IgnoreDecision
  BY <1>5 DEF IgnoreDecision, CodexElsewhere, TakesLine, turnVars
<1>6. CASE CompleteTurn
  <2>1. OfNoRequest([method |-> "turn/completed"]) /\ [method |-> "turn/completed"] \in Inbound
    BY InboundTypes DEF OfNoRequest, Inbound
  <2> QED
    BY <1>6, <2>1 DEF CompleteTurn, CodexElsewhere
<1>7. CASE Die
  BY <1>7 DEF Die, CodexElsewhere, turnVars
<1>8. CASE TakeForward
  <2>1. /\ TakesLine /\ Head(outbound) \notin Answer /\ UNCHANGED <<codex, itemState>>
    BY <1>8, ForwardNoAnswer DEF TakeForward, TakesLine, turnVars
  <2>2. ASSUME NEW o \in {"result", "error"},
               Emit([method |-> "response", id |-> Head(outbound).id, outcome |-> o])
        PROVE  \E m \in Inbound : OfNoRequest(m) /\ Emit(m)
    <3> DEFINE m == [method |-> "response", id |-> Head(outbound).id, outcome |-> o]
    <3>1. Head(outbound).id \in Asks
      BY <1>8, OutboundTaken DEF TakeForward, TypeInv
    <3>2. m \in Inbound /\ OfNoRequest(m)
      BY <3>1 DEF Inbound, Response, OfNoRequest
    <3> QED
      BY <2>2, <3>2
  <2>3. UNCHANGED inbound \/ \E m \in Inbound : OfNoRequest(m) /\ Emit(m)
    BY <1>8, <2>2 DEF TakeForward
  <2> QED
    BY <2>1, <2>3 DEF CodexElsewhere
<1> QED
  BY <1>1, <1>2, <1>3, <1>4, <1>5, <1>6, <1>7, <1>8 DEF CodexStep

(* A line is written behind the others, and the first is read. *)
LEMMA Written ==
  ASSUME TypeInv, NEW m \in Inbound, Emit(m)
  PROVE  LET n == Len(inbound) + 1 IN
         /\ n \in DOMAIN inbound' /\ inbound'[n] = m
         /\ \A k \in DOMAIN inbound' :
              \/ k \in DOMAIN inbound /\ inbound'[k] = inbound[k]
              \/ k = n /\ inbound'[k] = m
         /\ \A k \in DOMAIN inbound : k \in DOMAIN inbound' /\ inbound'[k] = inbound[k]
<1>1. inbound \in Seq(Inbound) /\ inbound' = Append(inbound, m)
  BY DEF TypeInv, CodexTypes, PipeTypeOK, Emit
<1> HIDE DEF Inbound
<1> QED
  BY <1>1, OneMore

LEMMA Taken ==
  ASSUME TypeInv, ReadLine
  PROVE  /\ Head(inbound) \in Inbound /\ Head(inbound) = inbound[1] /\ 1 \in DOMAIN inbound
         /\ \A k \in DOMAIN inbound' :
              k \in Nat \ {0} /\ k + 1 \in DOMAIN inbound /\ inbound'[k] = inbound[k + 1]
         /\ \A k \in DOMAIN inbound :
              k # 1 => k - 1 \in DOMAIN inbound' /\ inbound'[k - 1] = inbound[k]
<1>1. inbound \in Seq(Inbound) /\ inbound # <<>> /\ inbound' = Tail(inbound)
  BY DEF TypeInv, CodexTypes, PipeTypeOK, ReadLine
<1> QED
  BY <1>1, Rest

LEMMA LineTaken ==
  ASSUME TypeInv, TakesLine
  PROVE  /\ Head(outbound) = outbound[1]
         /\ \A k \in DOMAIN outbound :
              k # 1 => k - 1 \in DOMAIN outbound' /\ outbound'[k - 1] = outbound[k]
<1>1. outbound \in Seq(Outbound)
  BY DEF TypeInv, CodexTypes, PipeTypeOK
<1> QED
  BY <1>1, Rest DEF TakesLine

(* What is on its way from the App Server, and what it knows, stays. *)
codexSide == <<inbound, codex, itemState>>

LEMMA CodexSide ==
  ASSUME TypeInv, [Next]_vars
  PROVE  \/ EndRun
         \/ UNCHANGED codexSide
         \/ TakeCodexMessage
         \/ Environment
<1>1. CASE TakePhoneMessage \/ NoPhoneMessage \/ WriteRunning \/ RecordEvents \/ QueueForPhone
  BY <1>1 DEF TakePhoneMessage, NoPhoneMessage, WriteRunning, RecordEvents, QueueForPhone,
              codexVars, turnVars, pipeVars, codexSide
<1>2. CASE Start \/ Handshake \/ PhoneSends \/ PhoneReads \/ UNCHANGED vars
  BY <1>2 DEF Start, Handshake, PhoneSends, PhoneReads, vars, codexVars, turnVars, pipeVars,
              codexSide
<1>3. CASE SendToCodex \/ NoCodexMessage
  BY <1>3 DEF SendToCodex, SendLine, NoCodexMessage, ReadNothing, turnVars, pipeVars, codexSide
<1> QED
  BY <1>1, <1>2, <1>3, TheSteps DEF Idle

(***************************************************************************)
(* A message that closes a request was written when it was closed, and a   *)
(* completed item has no open request.                                     *)
(***************************************************************************)
ClosedIsClosed ==
  /\ \A w \in WireIds, k \in DOMAIN inbound : IsResolved(inbound[k], w) => codex[w] = "closed"
  /\ \A i \in Items, k \in DOMAIN inbound :
       IsCompleted(inbound[k], i) => itemState[i] = "completed"
  /\ \A w \in WireIds : codex[w] = "open" => itemState[ItemOf[w]] # "completed"

LEMMA ClosedIsClosedStep ==
  ASSUME TypeInv, ClosedIsClosed, [Next]_vars
  PROVE  ClosedIsClosed'
<1> USE DEF IsApproval, IsResolved, IsCompleted
<1>1. CASE EndRun
  <2>1. DOMAIN inbound' = {} /\ \A w \in WireIds : codex'[w] # "open"
    BY <1>1, EndRunBlank DEF Blank
  <2> QED
    BY <2>1 DEF ClosedIsClosed
<1>2. CASE UNCHANGED codexSide
  BY <1>2 DEF codexSide, ClosedIsClosed
<1>3. CASE TakeCodexMessage
  <2>1. ReadLine /\ UNCHANGED <<codex, itemState>>
    BY <1>3, CodexCases
  <2> QED
    BY <2>1, Taken DEF ClosedIsClosed
<1>4. CASE Environment
  <2>0. codex \in [WireIds -> {"idle", "open", "closed"}]
    BY DEF TypeInv, CodexTypes, TurnTypeOK
  <2>1. ASSUME NEW w \in WireIds, CodexOpens(w)
        PROVE  ClosedIsClosed'
    <3>1. [method |-> "requestApproval", wire |-> w] \in Inbound
      BY InboundTypes DEF Inbound
    <3>2. /\ codex[w] = "idle" /\ codex'[w] = "open" /\ itemState[ItemOf[w]] # "completed"
          /\ \A v \in WireIds : v # w => codex'[v] = codex[v]
          /\ UNCHANGED itemState
      BY <2>0, <2>1 DEF CodexOpens
    <3>3. \A k \in DOMAIN inbound' :
            \/ k \in DOMAIN inbound /\ inbound'[k] = inbound[k]
            \/ inbound'[k] = [method |-> "requestApproval", wire |-> w]
      BY <2>1, <3>1, Written DEF CodexOpens
    <3> QED
      BY <3>2, <3>3 DEF ClosedIsClosed
  <2>2. ASSUME NEW w \in WireIds, CodexCloses(w)
        PROVE  ClosedIsClosed'
    <3>1. [method |-> "serverRequest/resolved", wire |-> w] \in Inbound
      BY InboundTypes DEF Inbound
    <3>2. /\ codex'[w] = "closed" /\ \A v \in WireIds : v # w => codex'[v] = codex[v]
          /\ UNCHANGED itemState
      BY <2>0, <2>2 DEF CodexCloses
    <3>3. \A k \in DOMAIN inbound' :
            \/ k \in DOMAIN inbound /\ inbound'[k] = inbound[k]
            \/ inbound'[k] = [method |-> "serverRequest/resolved", wire |-> w]
      BY <2>2, <3>1, Written DEF CodexCloses
    <3> QED
      BY <3>2, <3>3 DEF ClosedIsClosed
  <2>3. ASSUME NEW i \in Items, CompleteItem(i)
        PROVE  ClosedIsClosed'
    <3> DEFINE m == [method |-> "item/completed", item |-> i, status |-> "completed"]
    <3>1. m \in Inbound /\ Emit(m)
      BY <2>3, InboundTypes DEF Inbound, CompleteItem
    <3>2. /\ itemState'[i] = "completed"
          /\ \A j \in Items : j # i => itemState'[j] = itemState[j]
          /\ \A w \in WireIds : codex'[w] = IF codex[w] = "open" /\ ItemOf[w] = i
                                             THEN "closed" ELSE codex[w]
      BY <2>3 DEF CompleteItem, TypeInv, CodexTypes, TurnTypeOK
    <3>3. \A k \in DOMAIN inbound' :
            \/ k \in DOMAIN inbound /\ inbound'[k] = inbound[k]
            \/ inbound'[k] = m
      BY <3>1, Written
    <3> QED
      BY <3>2, <3>3, ItemAssumption DEF ClosedIsClosed
  <2>4. CASE CodexElsewhere
    <3>1. \A k \in DOMAIN inbound' :
            \/ k \in DOMAIN inbound /\ inbound'[k] = inbound[k]
            \/ OfNoRequest(inbound'[k])
      BY <2>4, Written DEF CodexElsewhere
    <3> QED
      BY <2>4, <3>1, ItemAssumption DEF CodexElsewhere, ClosedIsClosed, OfNoRequest
  <2> QED
    BY <1>4, <2>1, <2>2, <2>3, <2>4, CodexMoves DEF Environment
<1> QED
  BY <1>1, <1>2, <1>3, <1>4, CodexSide

-----------------------------------------------------------------------------
(***************************************************************************)
(* No request is forgotten.  From the moment the App Server waits on a     *)
(* request it is on its way, pending, or its answer is: to be sent, or     *)
(* sent and not yet taken.                                                 *)
(***************************************************************************)
Unread(w) == \E k \in DOMAIN inbound : IsApproval(inbound[k], w)

AnswerSent(w) == \E k \in DOMAIN outbound : outbound[k] \in Answer /\ outbound[k].wire = w

Sends(e, w) == e.to = "codex" /\ e.line \in Answer /\ e.line.wire = w
AnswerToSend(w) == \E k \in DOMAIN todo : Sends(todo[k], w)

Held(w) ==
  \/ Unread(w)
  \/ pending[Normalized[w]] = w
  \/ AnswerSent(w)
  \/ AnswerToSend(w)
  \/ Normalized[w] \in DecidedWrongly

Kept == InLoop => \A w \in WireIds : codex[w] = "open" => Held(w)

KeptInv == ClosedIsClosed /\ Kept

(* What the phone has sent is remembered. *)
LEMMA WronglyStays ==
  ASSUME TypeInv, UNCHANGED asked \/ PhoneSends, NEW r \in DecidedWrongly
  PROVE  r \in DecidedWrongly'
<1>1. PICK a \in DOMAIN asked :
           /\ asked[a].method = "bridge/respondApproval" /\ asked[a].request = r
           /\ asked[a].decision \notin Decisions
  BY DEF DecidedWrongly
<1>2. a \in DOMAIN asked' /\ asked'[a] = asked[a]
  <2>1. CASE PhoneSends
    <3>1. PICK m \in PhoneMessage : asked' = Append(asked, m)
      BY <2>1 DEF PhoneSends
    <3> QED
      BY <3>1, OneMore DEF TypeInv, PhoneTypeOK
  <2> QED
    BY <1>1, <2>1
<1> QED
  BY <1>1, <1>2 DEF DecidedWrongly

LEMMA KeptTaken ==
  ASSUME BaseInv, Kept, TakePhoneMessage
  PROVE  Kept'
<1>1. PICK m \in PhoneMessage :
           /\ HandlePhoneMessage(m) /\ m.id \in DOMAIN asked /\ m = asked[m.id]
           /\ todo = <<>> /\ InLoop /\ UNCHANGED asked
  BY TakenMessage
<1>2. UNCHANGED <<inbound, outbound, codex>>
  BY DEF TakePhoneMessage, codexVars, turnVars, pipeVars
<1>3. \A r \in DecidedWrongly : r \in DecidedWrongly'
  BY <1>1, WronglyStays DEF BaseInv
<1>4. /\ pending \in [RequestIds -> WireIds \cup {NoWire}]
      /\ \A w \in WireIds : Normalized[w] \in RequestIds /\ w # NoWire
  BY NormalizedAssumption, NoWireAssumption DEF BaseInv, TypeInv, BrokerTypeOK
<1> SUFFICES ASSUME NEW w \in WireIds, codex[w] = "open" PROVE Held(w)'
  BY <1>2 DEF Kept
<1>5. Held(w) /\ ~AnswerToSend(w)
  BY <1>1 DEF Kept, AnswerToSend
<1>6. CASE pending'[Normalized[w]] = pending[Normalized[w]]
  BY <1>2, <1>3, <1>5, <1>6 DEF Held, Unread, AnswerSent
<1>7. CASE pending'[Normalized[w]] # pending[Normalized[w]]
  <2>1. /\ m.method = "bridge/respondApproval" /\ TakesOut(m) /\ m.request = Normalized[w]
        /\ DecidesIt(m) \/ m.decision \notin Decisions
    BY <1>1, <1>4, <1>7, PhoneCases DEF BaseInv, ForwardsIt, AnswersIt, DecidesIt, TakesOut
  <2>2. CASE m.decision \notin Decisions
    <3>1. Normalized[w] \in DecidedWrongly
      BY <1>1, <1>4, <2>1, <2>2 DEF DecidedWrongly
    <3> QED
      BY <1>3, <3>1 DEF Held
  <2>3. CASE DecidesIt(m)
    <3>1. CASE pending[Normalized[w]] = w
      <4>1. DecidesIt(m) => \E x \in Answer : x.wire = w /\ todo' = DecisionList(m, x, pending')
        <5> DEFINE y == [wire |-> w, decision |-> m.decision]
        <5>1. DecidesIt(m) => y \in Answer /\ y.wire = w /\ todo' = DecisionList(m, y, pending')
          BY <2>1, <3>1 DEF DecidesIt
        <5> QED
          BY <5>1
      <4>2. PICK x \in Answer : x.wire = w /\ todo' = DecisionList(m, x, pending')
        BY <2>3, <4>1
      <4>3. /\ DOMAIN todo' = 1..4
            /\ todo'[1] = [to |-> "codex", line |-> x]
        <5>1. todo' = DecisionList(m, x, pending')
          BY <4>2
        <5> QED
          BY <5>1 DEF DecisionList
      <4> QED
        BY <4>2, <4>3 DEF Held, AnswerToSend, Sends
    <3> QED
      BY <1>2, <1>3, <1>5, <3>1 DEF Held, Unread, AnswerSent
  <2> QED
    BY <2>1, <2>2, <2>3
<1> QED
  BY <1>6, <1>7

LEMMA KeptReported ==
  ASSUME BaseInv, ClosedIsClosed, Kept, TakeCodexMessage
  PROVE  Kept'
<1>1. PICK m \in Inbound :
           /\ m = Head(inbound) /\ todo = <<>> /\ InLoop /\ ReadLine
           /\ \/ UNCHANGED pending /\ (m \in Message => ~Emits(m))
              \/ m \in Message /\ HandleMessage(m)
           /\ UNCHANGED <<asked, codex, outbound>>
  <2>1. ReadLine
    BY CodexCases DEF BaseInv
  <2>2. UNCHANGED outbound
    BY <2>1 DEF ReadLine
  <2>3. \A x \in Response : x \notin Message
    BY DEF Response, Message, ApprovalMsg, ResolvedMsg, StartedMsg, CompletedMsg, TurnMsg
  <2> QED
    BY <2>1, <2>2, <2>3, CodexCases DEF BaseInv, Reports
<1>2. /\ m = inbound[1] /\ 1 \in DOMAIN inbound
      /\ \A k \in DOMAIN inbound :
           k # 1 => k - 1 \in DOMAIN inbound' /\ inbound'[k - 1] = inbound[k]
  BY <1>1, Taken DEF BaseInv
<1>3. \A r \in DecidedWrongly : r \in DecidedWrongly'
  BY <1>1, WronglyStays DEF BaseInv
<1> SUFFICES ASSUME NEW w \in WireIds, codex[w] = "open" PROVE Held(w)'
  BY <1>1 DEF Kept
<1>4. Held(w) /\ ~AnswerToSend(w)
  BY <1>1 DEF Kept, AnswerToSend
<1>5. ~Closes(m, w)
  BY <1>2, ItemAssumption DEF ClosedIsClosed, Closes
<1>6. CASE Unread(w) /\ ~IsApproval(m, w)
  BY <1>2, <1>6 DEF Held, Unread
<1>7. CASE IsApproval(m, w)
  <2>1. m \in Message /\ Emits(m)
    <3>1. m \in Message
      BY <1>7 DEF IsApproval, Inbound, Response
    <3> QED
      BY <1>7, <3>1 DEF IsApproval, Emits, ApprovalsOf
  <2> QED
    BY <1>1, <1>7, <2>1, PendingOpened DEF BaseInv, Held
<1>8. CASE pending[Normalized[w]] = w
  <2>1. \/ pending'[Normalized[w]] = w
        \/ \E v \in WireIds : Normalized[v] = Normalized[w] /\ pending'[Normalized[w]] = v
    BY <1>1, <1>5, <1>8, PendingAfter, NormalizedAssumption DEF BaseInv
  <2> QED
    BY <2>1, NormalizedAssumption DEF Held
<1> QED
  BY <1>1, <1>3, <1>4, <1>6, <1>7, <1>8 DEF Held, AnswerSent

LEMMA KeptSent ==
  ASSUME BaseInv, Kept, SendToCodex \/ RecordEvents \/ QueueForPhone
  PROVE  Kept'
<1>1. /\ todo # <<>> /\ todo' = Tail(todo) /\ UNCHANGED <<inbound, codex, pending, asked, pc>>
      /\ \/ Head(todo).to # "codex" /\ UNCHANGED outbound
         \/ Head(todo).to = "codex" /\ outbound' = Append(outbound, Head(todo).line)
  BY DEF SendToCodex, RecordEvents, QueueForPhone, SendLine, brokerVars, codexVars, turnVars,
         pipeVars, phoneVars
<1>2. /\ Head(todo) = todo[1]
      /\ \A k \in DOMAIN todo : k # 1 => k - 1 \in DOMAIN todo' /\ todo'[k - 1] = todo[k]
  BY <1>1, TodoTaken DEF BaseInv
<1>3. \A r \in DecidedWrongly : r \in DecidedWrongly'
  BY <1>1, WronglyStays DEF BaseInv
<1>4. ASSUME Head(todo).to = "codex", outbound' = Append(outbound, Head(todo).line)
      PROVE  /\ \E k \in DOMAIN outbound' : outbound'[k] = Head(todo).line
             /\ \A k \in DOMAIN outbound : k \in DOMAIN outbound' /\ outbound'[k] = outbound[k]
  <2>1. Head(todo).line \in Outbound /\ outbound \in Seq(Outbound)
    BY <1>1, <1>4, FirstEffect DEF BaseInv, TypeInv, CodexTypes, PipeTypeOK
  <2>2. PICK x \in Outbound : x = Head(todo).line
    BY <2>1
  <2> QED
    BY <1>4, <2>1, <2>2, OneMore
<1> SUFFICES ASSUME InLoop, NEW w \in WireIds, codex[w] = "open" PROVE Held(w)'
  BY <1>1 DEF Kept, InLoop
<1>5. Held(w)
  BY DEF Kept
<1>6. CASE AnswerToSend(w)
  <2>1. PICK k \in DOMAIN todo : Sends(todo[k], w)
    BY <1>6 DEF AnswerToSend
  <2>2. CASE k = 1
    <3>1. \E j \in DOMAIN outbound' : outbound'[j] = Head(todo).line
      BY <1>1, <1>2, <1>4, <2>1, <2>2 DEF Sends
    <3> QED
      BY <1>2, <2>1, <2>2, <3>1 DEF Held, AnswerSent, Sends
  <2>3. CASE k # 1
    BY <1>2, <2>1, <2>3 DEF Held, AnswerToSend
  <2> QED
    BY <2>2, <2>3
<1>7. CASE AnswerSent(w)
  BY <1>1, <1>4, <1>7 DEF Held, AnswerSent
<1> QED
  BY <1>1, <1>3, <1>5, <1>6, <1>7 DEF Held, Unread

LEMMA KeptCodex ==
  ASSUME BaseInv, Kept, Environment
  PROVE  Kept'
<1>1. UNCHANGED <<pending, todo, asked, pc>> /\ (CodexStep \/ TakeForward)
  BY DEF Environment, BridgeUnchanged, brokerVars, phoneVars
<1>2. \A r \in DecidedWrongly : r \in DecidedWrongly'
  BY <1>1, WronglyStays DEF BaseInv
<1>3. codex \in [WireIds -> {"idle", "open", "closed"}]
  BY DEF BaseInv, TypeInv, CodexTypes, TurnTypeOK
<1> SUFFICES ASSUME InLoop, NEW w \in WireIds, codex'[w] = "open" PROVE Held(w)'
  BY <1>1 DEF Kept, InLoop
<1>4. ASSUME codex[w] = "open",
             \A k \in DOMAIN inbound : k \in DOMAIN inbound' /\ inbound'[k] = inbound[k],
             AnswerSent(w) => AnswerSent(w)'
      PROVE  Held(w)'
  <2>1. Held(w)
    BY <1>4 DEF Kept
  <2> QED
    BY <1>1, <1>2, <1>4, <2>1 DEF Held, Unread, AnswerToSend
<1>5. ASSUME TakesLine, Head(outbound) \in Answer => Head(outbound).wire # w, AnswerSent(w)
      PROVE  AnswerSent(w)'
  <2>1. PICK k \in DOMAIN outbound : outbound[k] \in Answer /\ outbound[k].wire = w
    BY <1>5 DEF AnswerSent
  <2>2. k - 1 \in DOMAIN outbound' /\ outbound'[k - 1] = outbound[k]
    BY <1>5, <2>1, LineTaken DEF BaseInv
  <2> QED
    BY <2>1, <2>2 DEF AnswerSent
<1>6. UNCHANGED outbound => (AnswerSent(w) => AnswerSent(w)')
  BY DEF AnswerSent
<1>7. ASSUME NEW v \in WireIds, CodexOpens(v)
      PROVE  Held(w)'
  <2> DEFINE m == [method |-> "requestApproval", wire |-> v]
  <2>1. m \in Inbound /\ IsApproval(m, v)
    BY InboundTypes DEF Inbound, IsApproval
  <2>2. /\ \A k \in DOMAIN inbound : k \in DOMAIN inbound' /\ inbound'[k] = inbound[k]
        /\ \E k \in DOMAIN inbound' : inbound'[k] = m
    BY <1>7, <2>1, Written DEF CodexOpens, BaseInv
  <2>3. CASE v = w
    BY <2>1, <2>2, <2>3 DEF Held, Unread
  <2>4. CASE v # w
    BY <1>3, <1>4, <1>6, <1>7, <2>2, <2>4 DEF CodexOpens
  <2> QED
    BY <2>3, <2>4
<1>8. ASSUME NEW v \in WireIds, CodexCloses(v)
      PROVE  Held(w)'
  <2>1. [method |-> "serverRequest/resolved", wire |-> v] \in Inbound
    BY InboundTypes DEF Inbound
  <2>2. \A k \in DOMAIN inbound : k \in DOMAIN inbound' /\ inbound'[k] = inbound[k]
    BY <1>8, <2>1, Written DEF CodexCloses, BaseInv
  <2>3. v # w /\ codex[w] = "open"
    BY <1>3, <1>8 DEF CodexCloses
  <2>4. AnswerSent(w) => AnswerSent(w)'
    BY <1>5, <1>6, <1>8, <2>3 DEF CodexCloses
  <2> QED
    BY <1>4, <2>2, <2>3, <2>4
<1>9. ASSUME NEW i \in Items, CompleteItem(i)
      PROVE  Held(w)'
  <2>1. [method |-> "item/completed", item |-> i, status |-> "completed"] \in Inbound
    BY InboundTypes DEF Inbound
  <2>2. \A k \in DOMAIN inbound : k \in DOMAIN inbound' /\ inbound'[k] = inbound[k]
    BY <1>9, <2>1, Written DEF CompleteItem, BaseInv
  <2>3. codex[w] = "open" /\ UNCHANGED outbound
    BY <1>9 DEF CompleteItem
  <2> QED
    BY <1>4, <1>6, <2>2, <2>3
<1>10. CASE CodexElsewhere
  <2>1. \A k \in DOMAIN inbound : k \in DOMAIN inbound' /\ inbound'[k] = inbound[k]
    BY <1>10, Written DEF CodexElsewhere, BaseInv
  <2>2. codex[w] = "open"
    BY <1>10 DEF CodexElsewhere
  <2>3. AnswerSent(w) => AnswerSent(w)'
    BY <1>5, <1>6, <1>10, <2>2 DEF CodexElsewhere
  <2> QED
    BY <1>4, <2>1, <2>2, <2>3
<1> QED
  BY <1>1, <1>7, <1>8, <1>9, <1>10, CodexMoves DEF BaseInv

LEMMA KeptStep ==
  ASSUME BaseInv, KeptInv, [Next]_vars
  PROVE  KeptInv'
<1>1. SUFFICES Kept'
  BY ClosedIsClosedStep DEF BaseInv, KeptInv
<1>2. CASE EndRun
  BY <1>2, EndRunBlank DEF Kept, InLoop
<1>3. CASE Start
  BY <1>3 DEF Start, Kept, InLoop
<1>4. CASE Handshake
  <2>1. UNCHANGED codex /\ \A w \in WireIds : codex[w] # "open"
    BY <1>4 DEF Handshake, BaseInv, Phases, InLoop, Blank
  <2> QED
    BY <2>1 DEF Kept
<1>5. CASE NoPhoneMessage \/ NoCodexMessage \/ WriteRunning \/ PhoneSends \/ PhoneReads
           \/ UNCHANGED vars
  <2>1. UNCHANGED <<inbound, outbound, codex, pending, todo>> /\ (InLoop' => InLoop)
    BY <1>5 DEF NoPhoneMessage, NoCodexMessage, ReadNothing, WriteRunning, PhoneSends,
                PhoneReads, vars, brokerVars, codexVars, turnVars, pipeVars, InLoop
  <2>2. UNCHANGED asked \/ PhoneSends
    BY <1>5 DEF NoPhoneMessage, NoCodexMessage, WriteRunning, PhoneReads, vars, phoneVars
  <2>3. \A r \in DecidedWrongly : r \in DecidedWrongly'
    BY <2>2, WronglyStays DEF BaseInv
  <2> QED
    BY <2>1, <2>3 DEF KeptInv, Kept, Held, Unread, AnswerSent, AnswerToSend
<1> QED
  BY <1>2, <1>3, <1>4, <1>5, KeptTaken, KeptReported, KeptSent, KeptCodex, TheSteps
     DEF KeptInv, Idle

(***************************************************************************)
(* While the bridge runs, a request the App Server waits on is never       *)
(* forgotten, unless by a decision of the phone that is none               *)
(* (handle_message, send_decision, on_application_message).                *)
(***************************************************************************)
THEOREM RequestsKept == Spec => []ApprovalKept
<1>1. Init => BaseInv /\ KeptInv
  <2> SUFFICES ASSUME Init PROVE KeptInv
    BY BaseInit
  <2>1. /\ DOMAIN inbound = {} /\ ~InLoop /\ \A w \in WireIds : codex[w] # "open"
    BY InitBlank DEF Blank, InLoop
  <2> QED
    BY <2>1 DEF KeptInv, ClosedIsClosed, Kept
<1>2. BaseInv /\ KeptInv /\ [Next]_vars => (BaseInv /\ KeptInv)'
  BY BaseStep, KeptStep
<1>3. BaseInv /\ KeptInv => ApprovalKept
  <2> SUFFICES ASSUME BaseInv, KeptInv, InLoop, NEW w \in WireIds, codex[w] = "open"
               PROVE  \/ \E k \in DOMAIN inbound :
                           inbound[k] = [method |-> "requestApproval", wire |-> w]
                      \/ pending[Normalized[w]] = w
                      \/ \E k \in DOMAIN outbound : outbound[k] \in Answer /\ outbound[k].wire = w
                      \/ \E x \in ToSend : x \in Answer /\ x.wire = w
                      \/ Normalized[w] \in DecidedWrongly
    BY DEF ApprovalKept, OpenRequests
  <2>1. Held(w)
    BY DEF KeptInv, Kept
  <2>2. ASSUME NEW k \in DOMAIN inbound, IsApproval(inbound[k], w)
        PROVE  inbound[k] = [method |-> "requestApproval", wire |-> w]
    <3>1. inbound[k] \in Inbound
      BY DEF BaseInv, TypeInv, CodexTypes, PipeTypeOK
    <3>2. inbound[k] \in ApprovalMsg
      BY <2>2, <3>1 DEF IsApproval, Inbound, Message, ApprovalMsg, ResolvedMsg, StartedMsg,
                        CompletedMsg, TurnMsg, Response
    <3> QED
      BY <2>2, <3>2 DEF IsApproval, ApprovalMsg
  <2>3. ASSUME AnswerToSend(w)
        PROVE  \E x \in ToSend : x \in Answer /\ x.wire = w
    BY <2>3 DEF AnswerToSend, Sends, ToSend
  <2> QED
    BY <2>1, <2>2, <2>3 DEF Held, Unread, AnswerSent
<1> QED
  BY <1>1, <1>2, <1>3, PTL DEF Spec

-----------------------------------------------------------------------------
(***************************************************************************)
(* What is known of each request.  One the App Server has not made, or     *)
(* whose message is unread, is new to the bridge, and there is one such    *)
(* message; one that is pending has no answer yet, and is in the approvals *)
(* file or about to be; and what is about to be recorded is pending.       *)
(***************************************************************************)
Given(x) ==
  \/ \E k \in DOMAIN todo : todo[k].to = "codex" /\ todo[k].line = x
  \/ \E k \in DOMAIN sent : sent[k] = x

Unanswerable(w) == \A x \in Answer : x.wire = w => ~Given(x)

ToRecord(r) == \E k \in DOMAIN todo : todo[k].to = "audit" /\ r \in todo[k].approvals

New(w) ==
  Unanswerable(w) /\ Normalized[w] \notin approvalsLog /\ pending[Normalized[w]] = NoWire

UnaskedIsNew == \A w \in WireIds : codex[w] = "idle" => New(w)

UnreadIsNew ==
  \A w \in WireIds, k \in DOMAIN inbound :
    IsApproval(inbound[k], w) =>
      /\ codex[w] # "idle" /\ New(w)
      /\ \A j \in DOMAIN inbound : IsApproval(inbound[j], w) => j = k

PendingIsKnown ==
  \A r \in RequestIds :
    pending[r] # NoWire =>
      /\ codex[pending[r]] # "idle"
      /\ Unanswerable(pending[r])
      /\ r \in approvalsLog \/ ToRecord(r)

ToRecordIsPending == \A r \in RequestIds : ToRecord(r) => pending[r] # NoWire

Known == UnaskedIsNew /\ UnreadIsNew /\ PendingIsKnown /\ ToRecordIsPending

(* The answers there are: a decision adds its own, and no other step does. *)
LEMMA GivenKept ==
  ASSUME UNCHANGED <<todo, sent>>, NEW x
  PROVE  Given(x)' <=> Given(x)
  BY DEF Given

LEMMA GivenDone ==
  ASSUME BaseInv, SendToCodex \/ RecordEvents \/ QueueForPhone, NEW x \in Answer
  PROVE  Given(x)' <=> Given(x)
<1>1. /\ todo # <<>> /\ todo' = Tail(todo)
      /\ \/ /\ Head(todo).to = "codex" /\ Head(todo).line \in Answer
            /\ sent' = Append(sent, Head(todo).line)
         \/ (Head(todo).to = "codex" => Head(todo).line \notin Answer) /\ UNCHANGED sent
  BY DEF SendToCodex, RecordEvents, QueueForPhone, logVars
<1>2. /\ Head(todo) = todo[1] /\ 1 \in DOMAIN todo
      /\ \A k \in DOMAIN todo' : k + 1 \in DOMAIN todo /\ todo'[k] = todo[k + 1]
      /\ \A k \in DOMAIN todo : k # 1 => k - 1 \in DOMAIN todo' /\ todo'[k - 1] = todo[k]
  BY <1>1, TodoTaken DEF BaseInv
<1>3. CASE /\ Head(todo).to = "codex" /\ Head(todo).line \in Answer
           /\ sent' = Append(sent, Head(todo).line)
  <2>1. sent \in Seq(Answer)
    BY DEF BaseInv, TypeInv, LogTypeOK
  <2>2. PICK y \in Answer : y = Head(todo).line /\ sent' = Append(sent, y)
    BY <1>3
  <2>3. /\ Len(sent) + 1 \in DOMAIN sent' /\ sent'[Len(sent) + 1] = y
        /\ \A k \in DOMAIN sent : k \in DOMAIN sent' /\ sent'[k] = sent[k]
        /\ \A k \in DOMAIN sent' : k \in DOMAIN sent \/ k = Len(sent) + 1
    BY <2>1, <2>2, OneMore
  <2> QED
    BY <1>2, <1>3, <2>2, <2>3 DEF Given
<1>4. CASE (Head(todo).to = "codex" => Head(todo).line \notin Answer) /\ UNCHANGED sent
  BY <1>2, <1>4 DEF Given
<1> QED
  BY <1>1, <1>3, <1>4

LEMMA GivenReported ==
  ASSUME BaseInv, TakeCodexMessage, NEW x
  PROVE  Given(x)' <=> Given(x)
<1>1. /\ DOMAIN todo = {} /\ UNCHANGED sent
      /\ todo' = <<>> \/ Reports(Head(inbound))
  BY CodexCases DEF BaseInv
<1>2. \A k \in DOMAIN todo' : todo'[k].to # "codex"
  <2>1. CASE todo' = <<>>
    BY <2>1
  <2>2. CASE Reports(Head(inbound))
    <3>1. /\ DOMAIN todo' = 1..2
          /\ todo'[1] = [to |-> "audit", approvals |-> ApprovalsOf(Head(inbound)),
                         decisions |-> <<>>]
          /\ todo'[2] = [to |-> "phone", notice |-> Snapshot(0, pending')]
      BY <2>2 DEF Reports, EventEffects
    <3> QED
      BY <3>1
  <2> QED
    BY <1>1, <2>1, <2>2
<1> QED
  BY <1>1, <1>2 DEF Given

(* The three outcomes of a message of the phone. *)
Takes(r) ==
  /\ r \in RequestIds /\ pending[r] # NoWire
  /\ pending' = [pending EXCEPT ![r] = NoWire]

LEMMA PhoneOutcomes ==
  ASSUME BaseInv, TakePhoneMessage
  PROVE  /\ UNCHANGED <<codex, inbound, sent, approvalsLog>>
         /\ todo = <<>> /\ \A r \in RequestIds : ~ToRecord(r) /\ ~ToRecord(r)'
         /\ \/ /\ UNCHANGED pending \/ \E r \in RequestIds : Takes(r)
               /\ \A x \in Answer : Given(x)' <=> Given(x)
            \/ \E r \in RequestIds, y \in Answer :
                 /\ Takes(r) /\ y.wire = pending[r] /\ y.decision \in Decisions
                 /\ \A x \in Answer : Given(x)' <=> Given(x) \/ x = y
<1>1. PICK m \in PhoneMessage :
           /\ HandlePhoneMessage(m) /\ todo = <<>> /\ UNCHANGED <<sent, approvalsLog>>
  BY TakenMessage
<1>2. UNCHANGED <<codex, inbound>> /\ DOMAIN todo = {}
  BY <1>1 DEF TakePhoneMessage, codexVars, turnVars, pipeVars
<1>3. \A r \in RequestIds : ~ToRecord(r)
  BY <1>2 DEF ToRecord
<1>4. CASE ForwardsIt(m)
  <2>1. \A k \in DOMAIN todo' : todo'[k].to = "codex" /\ todo'[k].line \notin Answer
    BY <1>4, ForwardNoAnswer DEF ForwardsIt
  <2> QED
    BY <1>1, <1>2, <1>3, <1>4, <2>1 DEF ForwardsIt, ToRecord, Given
<1>5. CASE AnswersIt(m)
  <2>1. \A k \in DOMAIN todo' : todo'[k].to = "phone"
    BY <1>5 DEF AnswersIt
  <2> QED
    BY <1>1, <1>2, <1>3, <1>5, <2>1 DEF AnswersIt, TakesOut, Takes, ToRecord, Given
<1>6. CASE DecidesIt(m)
  <2>1. PICK r \in RequestIds, y \in Answer :
             /\ Takes(r) /\ y.wire = pending[r] /\ y.decision \in Decisions
             /\ todo' = DecisionList(m, y, pending')
    <3> DEFINE z == [wire |-> pending[m.request], decision |-> m.decision]
    <3>1. /\ m.request \in RequestIds /\ Takes(m.request)
          /\ z \in Answer /\ z.wire = pending[m.request] /\ z.decision \in Decisions
          /\ todo' = DecisionList(m, z, pending')
      BY <1>6 DEF DecidesIt, TakesOut, Takes
    <3> QED
      BY <3>1
  <2>2. /\ DOMAIN todo' = 1..4
        /\ todo'[1] = [to |-> "codex", line |-> y]
        /\ todo'[2] = [to |-> "audit", approvals |-> {}, decisions |-> <<y>>]
        /\ todo'[3] = [to |-> "phone", notice |-> Reply(m, "accepted")]
        /\ todo'[4] = [to |-> "phone", notice |-> Snapshot(0, pending')]
    BY <2>1 DEF DecisionList
  <2>3. /\ 1 \in DOMAIN todo' /\ todo'[1].to = "codex" /\ todo'[1].line = y
        /\ \A k \in DOMAIN todo' : todo'[k].to = "codex" => todo'[k].line = y
        /\ \A k \in DOMAIN todo' : todo'[k].to = "audit" => todo'[k].approvals = {}
    BY <2>2
  <2>4. \A r2 \in RequestIds : ~ToRecord(r2)'
    BY <2>3 DEF ToRecord
  <2>5. \A x \in Answer : Given(x)' <=> Given(x) \/ x = y
    BY <1>1, <1>2, <2>3 DEF Given
  <2> QED
    BY <1>1, <1>2, <1>3, <2>1, <2>4, <2>5
<1> QED
  BY <1>1, <1>4, <1>5, <1>6, PhoneCases DEF BaseInv

(* The two outcomes of a message of the App Server. *)
LEMMA CodexOutcomes ==
  ASSUME BaseInv, TakeCodexMessage
  PROVE  /\ UNCHANGED <<codex, sent, approvalsLog>> /\ ReadLine
         /\ \A x \in Answer : Given(x)' <=> Given(x)
         /\ todo = <<>> /\ \A r \in RequestIds : ~ToRecord(r)
         /\ \/ /\ \A w \in WireIds : ~IsApproval(Head(inbound), w)
               /\ \A r \in RequestIds : pending'[r] \in {pending[r], NoWire} /\ ~ToRecord(r)'
            \/ \E w \in WireIds :
                 /\ IsApproval(Head(inbound), w) /\ pending'[Normalized[w]] = w
                 /\ \A r \in RequestIds : r # Normalized[w] => pending'[r] = pending[r]
                 /\ \A r \in RequestIds : ToRecord(r)' <=> r = Normalized[w]
<1>1. PICK m \in Inbound :
           /\ m = Head(inbound) /\ todo = <<>> /\ ReadLine
           /\ \/ /\ UNCHANGED pending /\ todo' = <<>>
                 /\ m \in Message => ~Emits(m)
              \/ /\ m \in Message /\ HandleMessage(m)
                 /\ todo' = EventEffects(ApprovalsOf(m), pending')
           /\ UNCHANGED <<codex, sent, approvalsLog>>
  <2>1. \A x \in Response : x \notin Message
    BY DEF Response, Message, ApprovalMsg, ResolvedMsg, StartedMsg, CompletedMsg, TurnMsg
  <2> QED
    BY <2>1, CodexCases DEF BaseInv, Reports
<1>2. DOMAIN todo = {} /\ \A r \in RequestIds : ~ToRecord(r)
  BY <1>1 DEF ToRecord
<1>3. \A x \in Answer : Given(x)' <=> Given(x)
  BY GivenReported
<1>4. \A w \in WireIds : IsApproval(m, w) => m \in Message /\ Emits(m)
  <2>1. \A w \in WireIds : IsApproval(m, w) => m \in Message
    BY DEF IsApproval, Inbound, Response
  <2> QED
    BY <2>1 DEF IsApproval, Emits, ApprovalsOf
<1>5. CASE UNCHANGED pending /\ todo' = <<>> /\ (m \in Message => ~Emits(m))
  <2>1. DOMAIN todo' = {}
    BY <1>5
  <2>2. \A r \in RequestIds : ~ToRecord(r)'
    BY <2>1 DEF ToRecord
  <2> QED
    BY <1>1, <1>2, <1>3, <1>4, <1>5, <2>2
<1>6. CASE /\ m \in Message /\ HandleMessage(m)
           /\ todo' = EventEffects(ApprovalsOf(m), pending')
  <2>1. /\ DOMAIN todo' = 1..2
        /\ todo'[1] = [to |-> "audit", approvals |-> ApprovalsOf(m), decisions |-> <<>>]
        /\ todo'[2] = [to |-> "phone", notice |-> Snapshot(0, pending')]
    BY <1>6 DEF EventEffects
  <2>2. \A r \in RequestIds : ToRecord(r)' <=> r \in ApprovalsOf(m)
    BY <2>1 DEF ToRecord
  <2>3. CASE m.method # "requestApproval"
    <3>1. ApprovalsOf(m) = {} /\ \A w \in WireIds : ~IsApproval(m, w)
      BY <2>3 DEF ApprovalsOf, IsApproval
    <3>2. \A r \in RequestIds : pending'[r] \in {pending[r], NoWire}
      BY <1>6, <3>1, PendingAfter DEF BaseInv
    <3> QED
      BY <1>1, <1>2, <1>3, <2>2, <3>1, <3>2
  <2>4. CASE m.method = "requestApproval"
    <3>1. PICK w \in WireIds : IsApproval(m, w)
      BY <1>6, <2>4
         DEF Message, ApprovalMsg, ResolvedMsg, StartedMsg, CompletedMsg, TurnMsg, IsApproval
    <3>2. pending'[Normalized[w]] = w /\ ApprovalsOf(m) = {Normalized[w]}
      BY <1>6, <3>1, PendingOpened DEF BaseInv
    <3>3. pending' = [pending EXCEPT ![Normalized[w]] = w]
      BY <1>6, <3>1 DEF HandleMessage, HandleApproval, HandleItemStarted, HandleItemCompleted,
                        HandleResolved, HandleTurnCompleted, IsApproval
    <3>4. \A r \in RequestIds : r # Normalized[w] => pending'[r] = pending[r]
      BY <3>3 DEF BaseInv, TypeInv, BrokerTypeOK
    <3>5. \A r \in RequestIds : ToRecord(r)' <=> r = Normalized[w]
      BY <2>2, <3>2
    <3> QED
      BY <1>1, <1>2, <1>3, <3>1, <3>2, <3>4, <3>5
  <2> QED
    BY <2>3, <2>4
<1> QED
  BY <1>1, <1>5, <1>6

(* What carrying out an effect changes: an approval may be recorded. *)
LEMMA DoneOutcomes ==
  ASSUME BaseInv, SendToCodex \/ RecordEvents \/ QueueForPhone
  PROVE  /\ UNCHANGED <<codex, inbound, pending>>
         /\ \A x \in Answer : Given(x)' <=> Given(x)
         /\ \A r \in RequestIds : r \in approvalsLog => r \in approvalsLog'
         /\ \A r \in RequestIds : r \in approvalsLog' => r \in approvalsLog \/ ToRecord(r)
         /\ \A r \in RequestIds : ToRecord(r) => r \in approvalsLog' \/ ToRecord(r)'
         /\ \A r \in RequestIds : ToRecord(r)' => ToRecord(r)
<1>1. /\ todo # <<>> /\ todo' = Tail(todo) /\ UNCHANGED <<codex, inbound, pending>>
      /\ \/ Head(todo).to # "audit" /\ UNCHANGED approvalsLog
         \/ /\ Head(todo).to = "audit"
            /\ approvalsLog' = approvalsLog \cup Head(todo).approvals
  BY DEF SendToCodex, RecordEvents, QueueForPhone, SendLine, brokerVars, codexVars, turnVars,
         pipeVars, logVars
<1>2. /\ Head(todo) = todo[1] /\ 1 \in DOMAIN todo
      /\ \A k \in DOMAIN todo' : k + 1 \in DOMAIN todo /\ todo'[k] = todo[k + 1]
      /\ \A k \in DOMAIN todo : k # 1 => k - 1 \in DOMAIN todo' /\ todo'[k - 1] = todo[k]
  BY <1>1, TodoTaken DEF BaseInv
<1>3. \A x \in Answer : Given(x)' <=> Given(x)
  BY GivenDone
<1>4. \A r \in RequestIds : r \in approvalsLog' => r \in approvalsLog \/ ToRecord(r)
  BY <1>1, <1>2 DEF ToRecord
<1>5. ASSUME NEW r \in RequestIds, ToRecord(r)
      PROVE  r \in approvalsLog' \/ ToRecord(r)'
  <2>1. PICK k \in DOMAIN todo : todo[k].to = "audit" /\ r \in todo[k].approvals
    BY <1>5 DEF ToRecord
  <2>2. CASE k = 1
    BY <1>1, <1>2, <2>1, <2>2
  <2>3. CASE k # 1
    BY <1>2, <2>1, <2>3 DEF ToRecord
  <2> QED
    BY <2>2, <2>3
<1>6. \A r \in RequestIds : ToRecord(r)' => ToRecord(r)
  BY <1>2 DEF ToRecord
<1>7. \A r \in RequestIds : r \in approvalsLog => r \in approvalsLog'
  BY <1>1
<1> QED
  BY <1>1, <1>3, <1>4, <1>5, <1>6, <1>7

(* Wire ids and what they are filed under. *)
LEMMA Filing ==
  ASSUME BaseInv
  PROVE  /\ \A w \in WireIds : Normalized[w] \in RequestIds /\ w # NoWire
         /\ \A v, w \in WireIds : Normalized[v] = Normalized[w] => v = w
         /\ \A r \in RequestIds :
              pending[r] # NoWire => pending[r] \in WireIds /\ Normalized[pending[r]] = r
         /\ pending \in [RequestIds -> WireIds \cup {NoWire}]
  BY NormalizedAssumption, NoWireAssumption DEF BaseInv, TypeInv, BrokerTypeOK, Filed

LEMMA KnownTaken ==
  ASSUME BaseInv, Known, TakePhoneMessage
  PROVE  Known'
<1>1. /\ UNCHANGED <<codex, inbound, sent, approvalsLog>>
      /\ todo = <<>> /\ \A r \in RequestIds : ~ToRecord(r) /\ ~ToRecord(r)'
  BY PhoneOutcomes
<1>2. ASSUME \A r \in RequestIds : pending'[r] \in {pending[r], NoWire},
             \A x \in Answer :
               Given(x)' /\ ~Given(x) =>
                 \E r \in RequestIds : /\ pending[r] # NoWire /\ x.wire = pending[r]
                                       /\ pending'[r] = NoWire
      PROVE  Known'
  <2>1. \A w \in WireIds : New(w) => New(w)'
    BY <1>1, <1>2, Filing DEF New, Unanswerable
  <2>2. \A r \in RequestIds :
          pending'[r] # NoWire => /\ pending'[r] = pending[r] /\ pending[r] # NoWire
                                  /\ Unanswerable(pending[r]) => Unanswerable(pending[r])'
    <3>0. \A r \in RequestIds :
            pending'[r] # NoWire => pending'[r] = pending[r] /\ pending[r] # NoWire
      BY <1>2
    <3> SUFFICES ASSUME NEW r \in RequestIds, pending'[r] # NoWire,
                        Unanswerable(pending[r]), NEW x \in Answer, x.wire = pending[r], Given(x)'
                 PROVE  FALSE
      BY <3>0 DEF Unanswerable
    <3>1. PICK q \in RequestIds :
               pending[q] # NoWire /\ x.wire = pending[q] /\ pending'[q] = NoWire
      BY <1>2 DEF Unanswerable
    <3>2. pending[r] # NoWire /\ pending'[r] # NoWire
      BY <3>0
    <3>3. /\ \A p \in RequestIds : pending[p] # NoWire => Normalized[pending[p]] = p
          /\ pending[q] = pending[r]
      BY <3>1, Filing
    <3>4. q = r
      BY <3>1, <3>2, <3>3
    <3> QED
      BY <3>1, <3>2, <3>4
  <2>3. PendingIsKnown'
    <3> SUFFICES ASSUME NEW r \in RequestIds, pending'[r] # NoWire
                 PROVE  /\ codex'[pending'[r]] # "idle"
                        /\ Unanswerable(pending[r])'
                        /\ r \in approvalsLog' \/ ToRecord(r)'
      BY DEF PendingIsKnown
    <3>1. /\ pending'[r] = pending[r] /\ pending[r] # NoWire
          /\ codex[pending[r]] # "idle" /\ Unanswerable(pending[r])' /\ r \in approvalsLog
      BY <1>1, <2>2 DEF Known, PendingIsKnown
    <3> QED
      BY <1>1, <3>1 DEF Unanswerable
  <2> QED
    BY <1>1, <2>1, <2>3 DEF Known, UnaskedIsNew, UnreadIsNew, ToRecordIsPending
<1>3. CASE /\ UNCHANGED pending \/ \E r \in RequestIds : Takes(r)
           /\ \A x \in Answer : Given(x)' <=> Given(x)
  <2>1. \A r \in RequestIds : pending'[r] \in {pending[r], NoWire}
    BY <1>3, Filing DEF Takes
  <2> QED
    BY <1>2, <1>3, <2>1
<1>4. CASE \E r \in RequestIds, y \in Answer :
             /\ Takes(r) /\ y.wire = pending[r] /\ y.decision \in Decisions
             /\ \A x \in Answer : Given(x)' <=> Given(x) \/ x = y
  <2>1. PICK r \in RequestIds, y \in Answer :
             /\ Takes(r) /\ y.wire = pending[r]
             /\ \A x \in Answer : Given(x)' <=> Given(x) \/ x = y
    BY <1>4
  <2>2. \A q \in RequestIds : pending'[q] \in {pending[q], NoWire}
    BY <2>1, Filing DEF Takes
  <2>3. pending[r] # NoWire /\ pending'[r] = NoWire
    BY <2>1, Filing DEF Takes
  <2> QED
    BY <1>2, <2>1, <2>2, <2>3
<1> QED
  BY <1>3, <1>4, PhoneOutcomes

LEMMA KnownReported ==
  ASSUME BaseInv, Known, TakeCodexMessage
  PROVE  Known'
<1>1. /\ UNCHANGED <<codex, sent, approvalsLog>> /\ ReadLine
      /\ \A x \in Answer : Given(x)' <=> Given(x)
      /\ todo = <<>> /\ \A r \in RequestIds : ~ToRecord(r)
  BY CodexOutcomes
<1>2. /\ Head(inbound) = inbound[1] /\ 1 \in DOMAIN inbound
      /\ \A k \in DOMAIN inbound' :
           k \in Nat \ {0} /\ k + 1 \in DOMAIN inbound /\ inbound'[k] = inbound[k + 1]
  BY <1>1, Taken DEF BaseInv
<1>3. \A w \in WireIds : Unanswerable(w)' <=> Unanswerable(w)
  BY <1>1 DEF Unanswerable
<1>4. ASSUME NEW w \in WireIds, NEW k \in DOMAIN inbound', IsApproval(inbound'[k], w)
      PROVE  /\ codex[w] # "idle" /\ New(w) /\ ~IsApproval(Head(inbound), w)
             /\ \A j \in DOMAIN inbound' : IsApproval(inbound'[j], w) => j = k
  <2>1. /\ k + 1 \in DOMAIN inbound /\ IsApproval(inbound[k + 1], w) /\ k + 1 # 1
    BY <1>2, <1>4
  <2>2. \A j \in DOMAIN inbound : IsApproval(inbound[j], w) => j = k + 1
    BY <2>1 DEF Known, UnreadIsNew
  <2>3. \A j \in DOMAIN inbound' : IsApproval(inbound'[j], w) => j + 1 = k + 1 /\ j \in Nat
    BY <1>2, <2>2
  <2>4. codex[w] # "idle" /\ New(w)
    BY <2>1 DEF Known, UnreadIsNew
  <2>5. \A j \in DOMAIN inbound' : IsApproval(inbound'[j], w) => j = k
    BY <1>2, <2>3
  <2> QED
    BY <1>2, <2>1, <2>2, <2>4, <2>5
<1>5. CASE /\ \A w \in WireIds : ~IsApproval(Head(inbound), w)
           /\ \A r \in RequestIds : pending'[r] \in {pending[r], NoWire} /\ ~ToRecord(r)'
  <2>1. \A w \in WireIds : New(w) => New(w)'
    BY <1>1, <1>3, <1>5, Filing DEF New
  <2>2. PendingIsKnown'
    <3> SUFFICES ASSUME NEW r \in RequestIds, pending'[r] # NoWire
                 PROVE  /\ codex'[pending'[r]] # "idle"
                        /\ Unanswerable(pending[r])'
                        /\ r \in approvalsLog' \/ ToRecord(r)'
      BY DEF PendingIsKnown
    <3>1. pending'[r] = pending[r] /\ pending[r] # NoWire
      BY <1>5
    <3>2. codex[pending[r]] # "idle" /\ Unanswerable(pending[r]) /\ r \in approvalsLog
      BY <1>1, <3>1 DEF Known, PendingIsKnown
    <3> QED
      BY <1>1, <3>1, <3>2 DEF Unanswerable
  <2> QED
    BY <1>1, <1>4, <1>5, <2>1, <2>2 DEF Known, UnaskedIsNew, UnreadIsNew, ToRecordIsPending
<1>6. CASE \E w \in WireIds :
             /\ IsApproval(Head(inbound), w) /\ pending'[Normalized[w]] = w
             /\ \A r \in RequestIds : r # Normalized[w] => pending'[r] = pending[r]
             /\ \A r \in RequestIds : ToRecord(r)' <=> r = Normalized[w]
  <2>1. PICK w \in WireIds :
             /\ IsApproval(Head(inbound), w) /\ pending'[Normalized[w]] = w
             /\ \A r \in RequestIds : r # Normalized[w] => pending'[r] = pending[r]
             /\ \A r \in RequestIds : ToRecord(r)' <=> r = Normalized[w]
    BY <1>6
  <2>2. codex[w] # "idle" /\ New(w)
    BY <1>2, <2>1 DEF Known, UnreadIsNew
  <2>3. \A v \in WireIds : v # w /\ New(v) => New(v)'
    BY <1>1, <1>3, <2>1, Filing DEF New
  <2>4. PendingIsKnown'
    <3> SUFFICES ASSUME NEW r \in RequestIds, pending'[r] # NoWire
                 PROVE  /\ codex'[pending'[r]] # "idle"
                        /\ Unanswerable(pending[r])'
                        /\ r \in approvalsLog' \/ ToRecord(r)'
      BY DEF PendingIsKnown
    <3>1. CASE r = Normalized[w]
      BY <1>1, <2>1, <2>2, <3>1 DEF New, Unanswerable
    <3>2. CASE r # Normalized[w]
      <4>1. pending'[r] = pending[r] /\ pending[r] # NoWire
        BY <2>1, <3>2
      <4>2. codex[pending[r]] # "idle" /\ Unanswerable(pending[r]) /\ r \in approvalsLog
        BY <1>1, <4>1 DEF Known, PendingIsKnown
      <4> QED
        BY <1>1, <4>1, <4>2 DEF Unanswerable
    <3> QED
      BY <3>1, <3>2
  <2>5. ToRecordIsPending'
    BY <2>1, Filing DEF ToRecordIsPending
  <2>6. UnaskedIsNew'
    BY <1>1, <2>2, <2>3 DEF Known, UnaskedIsNew
  <2>7. UnreadIsNew'
    BY <1>1, <1>4, <2>1, <2>3 DEF UnreadIsNew
  <2> QED
    BY <2>4, <2>5, <2>6, <2>7 DEF Known
<1> QED
  BY <1>5, <1>6, CodexOutcomes

LEMMA KnownDone ==
  ASSUME BaseInv, Known, SendToCodex \/ RecordEvents \/ QueueForPhone
  PROVE  Known'
<1>1. /\ UNCHANGED <<codex, inbound, pending>>
      /\ \A x \in Answer : Given(x)' <=> Given(x)
      /\ \A r \in RequestIds : r \in approvalsLog => r \in approvalsLog'
      /\ \A r \in RequestIds : r \in approvalsLog' => r \in approvalsLog \/ ToRecord(r)
      /\ \A r \in RequestIds : ToRecord(r) => r \in approvalsLog' \/ ToRecord(r)'
      /\ \A r \in RequestIds : ToRecord(r)' => ToRecord(r)
  BY DoneOutcomes
<1>2. \A w \in WireIds : New(w) => New(w)'
  BY <1>1, Filing DEF New, Unanswerable, Known, ToRecordIsPending
<1>3. UnaskedIsNew' /\ UnreadIsNew'
  BY <1>1, <1>2 DEF Known, UnaskedIsNew, UnreadIsNew
<1>4. PendingIsKnown'
  BY <1>1 DEF Known, PendingIsKnown, Unanswerable
<1>5. ToRecordIsPending'
  BY <1>1 DEF Known, ToRecordIsPending
<1> QED
  BY <1>3, <1>4, <1>5 DEF Known

LEMMA KnownCodex ==
  ASSUME BaseInv, Known, Environment
  PROVE  Known'
<1>1. /\ UNCHANGED <<pending, todo, sent, approvalsLog>> /\ (CodexStep \/ TakeForward)
      /\ codex \in [WireIds -> {"idle", "open", "closed"}]
  BY DEF Environment, BridgeUnchanged, brokerVars, logVars, BaseInv, TypeInv, CodexTypes,
         TurnTypeOK
<1>2. \A w \in WireIds : New(w)' <=> New(w)
  BY <1>1 DEF New, Unanswerable, Given
<1>3. /\ \A r \in RequestIds : ToRecord(r)' <=> ToRecord(r)
      /\ \A w \in WireIds : Unanswerable(w)' <=> Unanswerable(w)
  BY <1>1 DEF ToRecord, Unanswerable, Given
<1>4. ToRecordIsPending'
  BY <1>1, <1>3 DEF Known, ToRecordIsPending
<1>5. ASSUME \A w \in WireIds : codex'[w] = "idle" => codex[w] = "idle"
      PROVE  PendingIsKnown' /\ UnaskedIsNew'
  <2>1. UnaskedIsNew'
    BY <1>2, <1>5 DEF Known, UnaskedIsNew
  <2>2. PendingIsKnown'
    <3> SUFFICES ASSUME NEW r \in RequestIds, pending[r] # NoWire
                 PROVE  /\ codex'[pending[r]] # "idle"
                        /\ \A x \in Answer : x.wire = pending[r] => ~Given(x)'
                        /\ r \in approvalsLog \/ ToRecord(r)'
      BY <1>1 DEF PendingIsKnown, Unanswerable
    <3>1. pending[r] \in WireIds
      BY Filing
    <3>2. /\ codex[pending[r]] # "idle" /\ Unanswerable(pending[r])
          /\ r \in approvalsLog \/ ToRecord(r)
      BY DEF Known, PendingIsKnown
    <3>3. \A x \in Answer : Given(x)' <=> Given(x)
      BY <1>1 DEF Given
    <3> QED
      BY <1>3, <1>5, <3>1, <3>2, <3>3 DEF Unanswerable
  <2> QED
    BY <2>1, <2>2
<1>6. ASSUME \A w \in WireIds : codex'[w] = "idle" <=> codex[w] = "idle",
             \A k \in DOMAIN inbound' :
               \/ k \in DOMAIN inbound /\ inbound'[k] = inbound[k]
               \/ \A w \in WireIds : ~IsApproval(inbound'[k], w)
      PROVE  Known'
  <2>1. UnreadIsNew'
    BY <1>2, <1>6 DEF Known, UnreadIsNew
  <2> QED
    BY <1>4, <1>5, <1>6, <2>1 DEF Known
<1>7. ASSUME NEW w \in WireIds, CodexOpens(w)
      PROVE  Known'
  <2> DEFINE m == [method |-> "requestApproval", wire |-> w]
  <2>1. m \in Inbound /\ \A v \in WireIds : IsApproval(m, v) <=> v = w
    BY InboundTypes DEF Inbound, IsApproval
  <2>2. /\ codex[w] = "idle" /\ codex'[w] = "open"
        /\ \A v \in WireIds : v # w => codex'[v] = codex[v]
    BY <1>1, <1>7 DEF CodexOpens
  <2>3. \A k \in DOMAIN inbound' :
          \/ k \in DOMAIN inbound /\ inbound'[k] = inbound[k]
          \/ k = Len(inbound) + 1 /\ inbound'[k] = m
    BY <1>7, <2>1, Written DEF CodexOpens, BaseInv
  <2>4. New(w) /\ \A k \in DOMAIN inbound : ~IsApproval(inbound[k], w)
    BY <2>2 DEF Known, UnaskedIsNew, UnreadIsNew
  <2> HIDE DEF m
  <2>5. UnreadIsNew'
    <3> SUFFICES ASSUME NEW v \in WireIds, NEW k \in DOMAIN inbound', IsApproval(inbound'[k], v)
                 PROVE  /\ codex'[v] # "idle" /\ New(v)'
                        /\ \A j \in DOMAIN inbound' : IsApproval(inbound'[j], v) => j = k
      BY DEF UnreadIsNew
    <3>1. CASE v = w
      BY <1>2, <2>1, <2>2, <2>3, <2>4, <3>1
    <3>2. CASE v # w
      BY <1>2, <2>1, <2>2, <2>3, <3>2 DEF Known, UnreadIsNew
    <3> QED
      BY <3>1, <3>2
  <2>6. \A v \in WireIds : codex'[v] = "idle" => codex[v] = "idle"
    BY <2>2
  <2> QED
    BY <1>4, <1>5, <2>5, <2>6 DEF Known
<1>8. ASSUME NEW w \in WireIds, CodexCloses(w)
      PROVE  Known'
  <2> DEFINE m == [method |-> "serverRequest/resolved", wire |-> w]
  <2>1. m \in Inbound /\ \A v \in WireIds : ~IsApproval(m, v)
    BY InboundTypes DEF Inbound, IsApproval
  <2>2. \A v \in WireIds : codex'[v] = "idle" <=> codex[v] = "idle"
    BY <1>1, <1>8 DEF CodexCloses
  <2>3. \A k \in DOMAIN inbound' :
          \/ k \in DOMAIN inbound /\ inbound'[k] = inbound[k]
          \/ inbound'[k] = m
    BY <1>8, <2>1, Written DEF CodexCloses, BaseInv
  <2> HIDE DEF m
  <2> QED
    BY <1>6, <2>1, <2>2, <2>3
<1>9. ASSUME NEW i \in Items, CompleteItem(i)
      PROVE  Known'
  <2> DEFINE m == [method |-> "item/completed", item |-> i, status |-> "completed"]
  <2>1. m \in Inbound /\ \A v \in WireIds : ~IsApproval(m, v)
    BY InboundTypes DEF Inbound, IsApproval
  <2>2. \A v \in WireIds : codex'[v] = "idle" <=> codex[v] = "idle"
    BY <1>9 DEF CompleteItem
  <2>3. \A k \in DOMAIN inbound' :
          \/ k \in DOMAIN inbound /\ inbound'[k] = inbound[k]
          \/ inbound'[k] = m
    BY <1>9, <2>1, Written DEF CompleteItem, BaseInv
  <2> HIDE DEF m
  <2> QED
    BY <1>6, <2>1, <2>2, <2>3
<1>10. CASE CodexElsewhere
  <2>1. \A k \in DOMAIN inbound' :
          \/ k \in DOMAIN inbound /\ inbound'[k] = inbound[k]
          \/ OfNoRequest(inbound'[k])
    BY <1>10, Written DEF CodexElsewhere, BaseInv
  <2> QED
    BY <1>6, <1>10, <2>1 DEF CodexElsewhere, OfNoRequest
<1> QED
  BY <1>1, <1>7, <1>8, <1>9, <1>10, CodexMoves DEF BaseInv

(* The steps that leave the requests alone. *)
Elsewhere ==
  \/ Start \/ Handshake \/ NoPhoneMessage \/ NoCodexMessage \/ WriteRunning
  \/ PhoneSends \/ PhoneReads \/ UNCHANGED vars

LEMMA ElsewhereKeeps ==
  ASSUME Elsewhere
  PROVE  UNCHANGED <<codex, inbound, pending, todo, sent, approvalsLog>>
<1>1. CASE Start \/ Handshake \/ NoPhoneMessage \/ WriteRunning
  BY <1>1 DEF Start, Handshake, NoPhoneMessage, WriteRunning, brokerVars, codexVars, turnVars,
              pipeVars, logVars
<1>2. CASE NoCodexMessage \/ PhoneSends \/ PhoneReads \/ UNCHANGED vars
  BY <1>2 DEF NoCodexMessage, ReadNothing, PhoneSends, PhoneReads, vars, brokerVars, codexVars,
              turnVars, pipeVars, logVars
<1> QED
  BY <1>1, <1>2 DEF Elsewhere

LEMMA KnownStep ==
  ASSUME BaseInv, Known, [Next]_vars
  PROVE  Known'
<1>1. CASE EndRun
  <2>1. /\ DOMAIN todo' = {} /\ DOMAIN sent' = {} /\ DOMAIN inbound' = {} /\ approvalsLog' = {}
        /\ \A r \in RequestIds : pending'[r] = NoWire
    BY <1>1, EndRunBlank DEF Blank, NothingPending
  <2>2. \A w \in WireIds : New(w)'
    BY <2>1, Filing DEF New, Unanswerable, Given
  <2> QED
    BY <2>1, <2>2 DEF Known, UnaskedIsNew, UnreadIsNew, PendingIsKnown, ToRecordIsPending, ToRecord
<1>2. CASE Elsewhere
  <2>1. UNCHANGED <<codex, inbound, pending, todo, sent, approvalsLog>>
    BY <1>2, ElsewhereKeeps
  <2> QED
    BY <2>1 DEF Known, UnaskedIsNew, UnreadIsNew, PendingIsKnown, ToRecordIsPending, ToRecord,
                New, Unanswerable, Given
<1> QED
  BY <1>1, <1>2, KnownTaken, KnownReported, KnownDone, KnownCodex, TheSteps DEF Idle, Elsewhere

-----------------------------------------------------------------------------
(***************************************************************************)
(* The bridge implements ApprovalLedger: a message of the App Server opens *)
(* a request or closes some, one of the phone decides one, closes one or   *)
(* neither, an end of the run begins a new ledger, and what is sent,       *)
(* recorded or queued leaves the ledger as it is.                          *)
(***************************************************************************)

(* What is decided, in terms of the answers there are. *)
LEMMA DecidedIs ==
  ASSUME NEW r \in RequestIds
  PROVE  /\ Decided(r) = {x \in Answer : Normalized[x.wire] = r /\ Given(x)}
         /\ Decided(r)' = {x \in Answer : Normalized[x.wire] = r /\ Given(x)'}
  BY DEF Decided, ToSend, Given

LEMMA DecidedSame ==
  ASSUME NEW r \in RequestIds, \A x \in Answer : Given(x)' <=> Given(x)
  PROVE  Decided(r)' = Decided(r)
  BY DecidedIs

LEMMA NewIsUndecided ==
  ASSUME BaseInv, NEW w \in WireIds, Unanswerable(w)
  PROVE  Decided(Normalized[w]) = {}
<1>1. \A x \in Answer : x.wire \in WireIds
  BY DEF Answer
<1>2. \A x \in Answer : Normalized[x.wire] = Normalized[w] => x.wire = w
  BY <1>1, Filing
<1>3. \A x \in Answer : ~(Normalized[x.wire] = Normalized[w] /\ Given(x))
  BY <1>2 DEF Unanswerable
<1> QED
  BY <1>3, Filing, DecidedIs

LEMMA PendingIsUndecided ==
  ASSUME BaseInv, Known, NEW r \in RequestIds, pending[r] # NoWire
  PROVE  Decided(r) = {}
<1>1. PICK w \in WireIds : w = pending[r] /\ Normalized[w] = r /\ Unanswerable(w)
  BY Filing DEF Known, PendingIsKnown
<1> QED
  BY <1>1, NewIsUndecided

(* The status of one request, now and after a step. *)
LEMMA StatusNow ==
  ASSUME NEW r \in RequestIds
  PROVE  /\ pending[r] # NoWire => LedgerStatus[r] = "open"
         /\ pending[r] = NoWire /\ Decided(r) # {} => LedgerStatus[r] = "decided"
         /\ pending[r] = NoWire /\ Decided(r) = {} /\ r \in approvalsLog
              => LedgerStatus[r] = "closed"
         /\ pending[r] = NoWire /\ Decided(r) = {} /\ r \notin approvalsLog
              => LedgerStatus[r] = "none"
  BY DEF LedgerStatus

LEMMA StatusNext ==
  ASSUME NEW r \in RequestIds
  PROVE  /\ pending'[r] # NoWire => LedgerStatus'[r] = "open"
         /\ pending'[r] = NoWire /\ Decided(r)' # {} => LedgerStatus'[r] = "decided"
         /\ pending'[r] = NoWire /\ Decided(r)' = {} /\ r \in approvalsLog'
              => LedgerStatus'[r] = "closed"
         /\ pending'[r] = NoWire /\ Decided(r)' = {} /\ r \notin approvalsLog'
              => LedgerStatus'[r] = "none"
  BY DEF LedgerStatus

LEMMA StatusSame ==
  ASSUME NEW r \in RequestIds, pending'[r] = pending[r], Decided(r)' = Decided(r),
         r \in approvalsLog' <=> r \in approvalsLog
  PROVE  LedgerStatus'[r] = LedgerStatus[r]
<1>1. CASE pending[r] # NoWire
  BY <1>1, StatusNow, StatusNext
<1>2. CASE pending[r] = NoWire
  BY <1>2, StatusNow, StatusNext
<1> QED
  BY <1>1, <1>2

LEMMA ChoiceIs ==
  ASSUME NEW r \in RequestIds
  PROVE  /\ LedgerChoice[r] = IF Decided(r) # {}
                                THEN (CHOOSE x \in Decided(r) : TRUE).decision ELSE NoDecision
         /\ LedgerChoice'[r] = IF Decided(r)' # {}
                                 THEN (CHOOSE x \in Decided(r)' : TRUE).decision ELSE NoDecision
  BY DEF LedgerChoice

(* The ledger's functions are given by their values. *)
LEMMA ByValues ==
  /\ LedgerStatus = [r \in RequestIds |-> LedgerStatus[r]]
  /\ LedgerStatus' = [r \in RequestIds |-> LedgerStatus'[r]]
  /\ LedgerChoice = [r \in RequestIds |-> LedgerChoice[r]]
  /\ LedgerChoice' = [r \in RequestIds |-> LedgerChoice'[r]]
  BY DEF LedgerStatus, LedgerChoice

LEMMA ChoiceSame ==
  ASSUME \A x \in Answer : Given(x)' <=> Given(x)
  PROVE  LedgerChoice' = LedgerChoice
<1>1. \A r \in RequestIds : LedgerChoice'[r] = LedgerChoice[r]
  BY DecidedSame, ChoiceIs
<1> QED
  BY <1>1, ByValues

LEMMA LedgerSame ==
  ASSUME \A x \in Answer : Given(x)' <=> Given(x),
         UNCHANGED pending,
         \A r \in RequestIds :
           pending[r] = NoWire => (r \in approvalsLog' <=> r \in approvalsLog)
  PROVE  UNCHANGED <<LedgerStatus, LedgerChoice>>
<1>1. ASSUME NEW r \in RequestIds
      PROVE  LedgerStatus'[r] = LedgerStatus[r]
  <2>1. Decided(r)' = Decided(r)
    BY DecidedSame
  <2>2. CASE pending[r] # NoWire
    BY <2>2, StatusNow, StatusNext
  <2>3. CASE pending[r] = NoWire
    BY <2>1, <2>3, StatusSame
  <2> QED
    BY <2>2, <2>3
<1> QED
  BY <1>1, ChoiceSame, ByValues

(* A step that only takes requests out of pending closes them. *)
LEMMA LedgerCloses ==
  ASSUME BaseInv, Known, UNCHANGED approvalsLog,
         \A x \in Answer : Given(x)' <=> Given(x),
         \A r \in RequestIds : ~ToRecord(r) /\ pending'[r] \in {pending[r], NoWire}
  PROVE  \E S \in SUBSET RequestIds : Ledger!Close(S)
<1> DEFINE S == {r \in RequestIds : pending[r] # NoWire /\ pending'[r] = NoWire}
<1>1. ASSUME NEW r \in S
      PROVE  LedgerStatus[r] = "open" /\ LedgerStatus'[r] = "closed"
  <2>1. Decided(r) = {} /\ Decided(r)' = {} /\ r \in approvalsLog
    BY PendingIsUndecided, DecidedSame DEF Known, PendingIsKnown
  <2> QED
    BY <2>1, StatusNow, StatusNext
<1>2. ASSUME NEW r \in RequestIds, r \notin S
      PROVE  LedgerStatus'[r] = LedgerStatus[r]
  <2>1. pending'[r] = pending[r] /\ Decided(r)' = Decided(r)
    BY <1>2, DecidedSame
  <2> QED
    BY <2>1, StatusSame
<1>3. LedgerStatus' = [r \in RequestIds |-> IF r \in S THEN "closed" ELSE LedgerStatus[r]]
  BY <1>1, <1>2, ByValues
<1> QED
  BY <1>1, <1>3, ChoiceSame DEF Ledger!Close

(* A step that makes a request pending that was new opens it. *)
LEMMA LedgerOpens ==
  ASSUME BaseInv, Known, UNCHANGED approvalsLog,
         \A x \in Answer : Given(x)' <=> Given(x),
         NEW w \in WireIds, New(w), pending'[Normalized[w]] = w,
         \A r \in RequestIds : r # Normalized[w] => pending'[r] = pending[r]
  PROVE  \E r \in RequestIds : Ledger!Open(r)
<1>1. PICK r \in RequestIds : r = Normalized[w]
  BY Filing
<1>2. /\ pending[r] = NoWire /\ pending'[r] # NoWire
      /\ Decided(r) = {} /\ r \notin approvalsLog
  BY <1>1, Filing, NewIsUndecided DEF New
<1>3. LedgerStatus[r] = "none" /\ LedgerStatus'[r] = "open"
  BY <1>2, StatusNow, StatusNext
<1>4. \A q \in RequestIds : q # r => LedgerStatus'[q] = LedgerStatus[q]
  BY <1>1, DecidedSame, StatusSame
<1>5. LedgerStatus' = [LedgerStatus EXCEPT ![r] = "open"]
  BY <1>3, <1>4, ByValues
<1> QED
  BY <1>3, <1>5, ChoiceSame DEF Ledger!Open

(* A step that takes a request out of pending and gives its answer decides *)
(* it.                                                                     *)
LEMMA LedgerDecides ==
  ASSUME BaseInv, Known, UNCHANGED approvalsLog,
         NEW r \in RequestIds, NEW y \in Answer,
         Takes(r), y.wire = pending[r], y.decision \in Decisions,
         \A x \in Answer : Given(x)' <=> Given(x) \/ x = y
  PROVE  Ledger!Decide(r, y.decision)
<1>1. /\ pending[r] # NoWire /\ pending'[r] = NoWire /\ Normalized[y.wire] = r
      /\ \A q \in RequestIds : q # r => pending'[q] = pending[q]
  BY Filing DEF Takes
<1>2. Decided(r) = {} /\ Decided(r)' = {y}
  <2>1. Decided(r) = {}
    BY <1>1, PendingIsUndecided
  <2> QED
    BY <1>1, <2>1, DecidedIs
<1>3. ASSUME NEW q \in RequestIds, q # r
      PROVE  Decided(q)' = Decided(q)
  <2>1. \A x \in Answer : Normalized[x.wire] = q => (Given(x)' <=> Given(x))
    BY <1>1, <1>3
  <2> QED
    BY <2>1, DecidedIs
<1>4. LedgerStatus[r] = "open" /\ LedgerStatus'[r] = "decided"
  <2>1. Decided(r)' # {}
    BY <1>2
  <2> QED
    BY <1>1, <2>1, StatusNow, StatusNext
<1>5. \A q \in RequestIds : q # r => LedgerStatus'[q] = LedgerStatus[q]
  BY <1>1, <1>3, StatusSame
<1>6. LedgerStatus' = [LedgerStatus EXCEPT ![r] = "decided"]
  BY <1>4, <1>5, ByValues
<1>7. LedgerChoice'[r] = y.decision
  <2>1. Decided(r)' # {} /\ (CHOOSE x \in Decided(r)' : TRUE) = y
    BY <1>2
  <2> QED
    BY <2>1, ChoiceIs
<1>8. \A q \in RequestIds : q # r => LedgerChoice'[q] = LedgerChoice[q]
  BY <1>3, ChoiceIs
<1>9. LedgerChoice' = [LedgerChoice EXCEPT ![r] = y.decision]
  BY <1>7, <1>8, ByValues
<1> QED
  BY <1>4, <1>6, <1>9 DEF Ledger!Decide

(* Nothing is left of a run that has ended. *)
LEMMA LedgerBegins ==
  ASSUME EndRun
  PROVE  Ledger!NewRun
<1>1. /\ DOMAIN todo' = {} /\ DOMAIN sent' = {} /\ approvalsLog' = {}
      /\ \A r \in RequestIds : pending'[r] = NoWire
  BY EndRunBlank DEF Blank, NothingPending
<1>2. \A r \in RequestIds : Decided(r)' = {}
  BY <1>1, DecidedIs DEF Given
<1>3. \A r \in RequestIds : LedgerStatus'[r] = "none" /\ LedgerChoice'[r] = NoDecision
  BY <1>1, <1>2, StatusNext, ChoiceIs
<1> QED
  BY <1>3, ByValues DEF Ledger!NewRun

LEMMA LedgerInit == Init => Ledger!Blank
<1> SUFFICES ASSUME Init PROVE Ledger!Blank
  OBVIOUS
<1>1. /\ DOMAIN todo = {} /\ DOMAIN sent = {} /\ approvalsLog = {}
      /\ \A r \in RequestIds : pending[r] = NoWire
  BY InitBlank DEF Blank, NothingPending
<1>2. \A r \in RequestIds : Decided(r) = {}
  BY <1>1, DecidedIs DEF Given
<1>3. \A r \in RequestIds : LedgerStatus[r] = "none" /\ LedgerChoice[r] = NoDecision
  BY <1>1, <1>2, StatusNow, ChoiceIs
<1> QED
  BY <1>3, ByValues DEF Ledger!Blank

LEMMA LedgerStep ==
  ASSUME BaseInv, Known, [Next]_vars
  PROVE  [Ledger!LedgerNext]_(Ledger!ledger)
<1> USE DEF Ledger!LedgerNext, Ledger!ledger
<1>1. CASE EndRun
  BY <1>1, LedgerBegins
<1>2. CASE Elsewhere \/ Environment
  <2>1. UNCHANGED <<pending, todo, sent, approvalsLog>>
    BY <1>2, ElsewhereKeeps DEF Environment, BridgeUnchanged, brokerVars, logVars
  <2> QED
    BY <2>1, GivenKept, LedgerSame
<1>3. CASE SendToCodex \/ RecordEvents \/ QueueForPhone
  <2>1. \A r \in RequestIds : pending[r] = NoWire => (r \in approvalsLog' <=> r \in approvalsLog)
    BY <1>3, DoneOutcomes DEF Known, ToRecordIsPending
  <2> QED
    BY <1>3, <2>1, DoneOutcomes, LedgerSame
<1>4. CASE TakePhoneMessage
  <2>1. UNCHANGED approvalsLog /\ \A r \in RequestIds : ~ToRecord(r)
    BY <1>4, PhoneOutcomes
  <2>2. CASE /\ UNCHANGED pending \/ \E r \in RequestIds : Takes(r)
             /\ \A x \in Answer : Given(x)' <=> Given(x)
    <3>1. \A r \in RequestIds : pending'[r] \in {pending[r], NoWire}
      BY <2>2, Filing DEF Takes
    <3> QED
      BY <2>1, <2>2, <3>1, LedgerCloses
  <2>3. ASSUME NEW r \in RequestIds, NEW y \in Answer,
               Takes(r), y.wire = pending[r], y.decision \in Decisions,
               \A x \in Answer : Given(x)' <=> Given(x) \/ x = y
        PROVE  \E q \in RequestIds, d \in Decisions : Ledger!Decide(q, d)
    BY <2>1, <2>3, LedgerDecides
  <2> QED
    BY <1>4, <2>2, <2>3, PhoneOutcomes
<1>5. CASE TakeCodexMessage
  <2>1. /\ UNCHANGED approvalsLog /\ \A r \in RequestIds : ~ToRecord(r)
        /\ \A x \in Answer : Given(x)' <=> Given(x)
    BY <1>5, CodexOutcomes
  <2>2. CASE \A r \in RequestIds : pending'[r] \in {pending[r], NoWire}
    BY <2>1, <2>2, LedgerCloses
  <2>3. ASSUME NEW w \in WireIds, IsApproval(Head(inbound), w), pending'[Normalized[w]] = w,
               \A r \in RequestIds : r # Normalized[w] => pending'[r] = pending[r]
        PROVE  \E r \in RequestIds : Ledger!Open(r)
    <3>1. Head(inbound) = inbound[1] /\ 1 \in DOMAIN inbound
      BY <1>5, CodexOutcomes, Taken DEF BaseInv
    <3>2. New(w)
      BY <2>3, <3>1 DEF Known, UnreadIsNew
    <3> QED
      BY <2>1, <2>3, <3>2, LedgerOpens
  <2> QED
    BY <1>5, <2>2, <2>3, CodexOutcomes
<1> QED
  BY <1>1, <1>2, <1>3, <1>4, <1>5, TheSteps DEF Idle, Elsewhere

(***************************************************************************)
(* The bridge keeps the ledger the broker service keeps: a request is      *)
(* opened once, and decided once or closed undecided, in any interleaving  *)
(* of the phone, the App Server and failures (handle_phone_message,        *)
(* handle_codex_message).                                                  *)
(***************************************************************************)
THEOREM LedgerKept == Spec => BridgeKeepsLedger
<1>1. Init => BaseInv /\ Known
  <2> SUFFICES ASSUME Init PROVE Known
    BY BaseInit
  <2>1. /\ DOMAIN todo = {} /\ DOMAIN sent = {} /\ DOMAIN inbound = {} /\ approvalsLog = {}
        /\ \A r \in RequestIds : pending[r] = NoWire
    BY InitBlank DEF Blank, NothingPending
  <2>2. \A w \in WireIds : New(w)
    BY <2>1, BaseInit, Filing DEF New, Unanswerable, Given
  <2> QED
    BY <2>1, <2>2 DEF Known, UnaskedIsNew, UnreadIsNew, PendingIsKnown, ToRecordIsPending, ToRecord
<1>2. BaseInv /\ Known /\ [Next]_vars => (BaseInv /\ Known)'
  BY BaseStep, KnownStep
<1>3. BaseInv /\ Known /\ [Next]_vars => [Ledger!LedgerNext]_(Ledger!ledger)
  BY LedgerStep
<1> QED
  BY <1>1, <1>2, <1>3, LedgerInit, PTL DEF Spec, BridgeKeepsLedger, Ledger!LedgerSpec

=============================================================================
