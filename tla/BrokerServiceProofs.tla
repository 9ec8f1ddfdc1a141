------------------------- MODULE BrokerServiceProofs -------------------------
(***************************************************************************)
(* Proofs about the broker service, for every value of its constants: any  *)
(* number of wire ids, items, decisions and broker-respond processes, any  *)
(* number of runs and responses.                                           *)
(***************************************************************************)
EXTENDS BrokerServiceProperties, TLAPS, SequenceTheorems

-----------------------------------------------------------------------------
(***************************************************************************)
(* Type correctness.  One lemma per part of the state that changes         *)
(* together.                                                               *)
(***************************************************************************)

(* The broker's handlers keep the types of its three variables.            *)
LEMMA BrokerTypes ==
  ASSUME BrokerTypeOK,
         \/ UNCHANGED brokerVars
         \/ ResetBroker
         \/ \E m \in Message : HandleMessage(m)
         \/ \E r \in RequestIds : SendDecision(r)
  PROVE  BrokerTypeOK'
<1> USE NormalizedAssumption, NoWireAssumption DEF BrokerTypeOK
<1>1. CASE UNCHANGED brokerVars
  BY <1>1 DEF brokerVars
<1>2. CASE ResetBroker
  BY <1>2 DEF ResetBroker
<1>3. ASSUME NEW m \in Message, HandleMessage(m)
      PROVE  BrokerTypeOK'
  <2>1. CASE HandleApproval(m)
    BY <1>3, <2>1 DEF HandleApproval, Message, ApprovalMsg, ResolvedMsg, StartedMsg,
                      CompletedMsg, TurnMsg
  <2>2. CASE HandleItemStarted(m)
    BY <1>3, <2>2 DEF HandleItemStarted, Message, ApprovalMsg, ResolvedMsg, StartedMsg,
                      CompletedMsg, TurnMsg
  <2>3. CASE HandleItemCompleted(m)
    BY <1>3, <2>3 DEF HandleItemCompleted, CleanupForItem, Message, ApprovalMsg,
                      ResolvedMsg, StartedMsg, CompletedMsg, TurnMsg
  <2>4. CASE HandleResolved(m)
    BY <1>3, <2>4 DEF HandleResolved, Message, ApprovalMsg, ResolvedMsg, StartedMsg,
                      CompletedMsg, TurnMsg
  <2>5. CASE HandleTurnCompleted(m)
    BY <2>5 DEF HandleTurnCompleted, brokerVars
  <2> QED
    BY <1>3, <2>1, <2>2, <2>3, <2>4, <2>5 DEF HandleMessage
<1>4. ASSUME NEW r \in RequestIds, SendDecision(r)
      PROVE  BrokerTypeOK'
  BY <1>4 DEF SendDecision
<1> QED
  BY <1>1, <1>2, <1>3, <1>4

(* A line more in the pipe, or an empty pipe. *)
LEMMA EmitTypes ==
  ASSUME PipeTypeOK(Message, Answer),
         NEW m \in Message, Emit(m),
         UNCHANGED <<running, buffered, outbound>>
  PROVE  PipeTypeOK(Message, Answer)'
<1>1. inbound' \in Seq(Message) /\ Len(inbound') = Len(inbound) + 1
  BY DEF PipeTypeOK, Emit
<1>2. buffered' \in 0..Len(inbound')
  BY <1>1 DEF PipeTypeOK
<1> QED
  BY <1>1, <1>2 DEF PipeTypeOK

LEMMA ClosePipesTypes ==
  ASSUME ClosePipes
  PROVE  PipeTypeOK(Message, Answer)'
<1>1. inbound' \in Seq(Message) /\ Len(inbound') = 0
  BY DEF ClosePipes
<1>2. buffered' \in 0..Len(inbound')
  BY <1>1 DEF ClosePipes
<1>3. running' \in BOOLEAN
  BY DEF ClosePipes
<1>4. outbound' \in Seq(Answer)
  BY DEF ClosePipes
<1> QED
  BY <1>1, <1>2, <1>3, <1>4 DEF PipeTypeOK

(* The steps of the App Server keep the types of its turn and of the pipes. *)
LEMMA CodexTypes ==
  ASSUME CodexTypeOK,
         \/ UNCHANGED codexVars
         \/ CloseChild
         \/ CodexStep
         \/ ReadLine /\ UNCHANGED turnVars
         \/ \E x \in Answer : SendLine(x) /\ UNCHANGED turnVars
         \/ running' = TRUE /\ turn' = "active"
              /\ UNCHANGED <<codex, itemState, inbound, buffered, outbound>>
  PROVE  CodexTypeOK'
<1> USE DEF CodexTypeOK
<1>1. CASE UNCHANGED codexVars
  BY <1>1 DEF codexVars, turnVars, pipeVars, PipeTypeOK
<1>2. CASE CloseChild
  BY <1>2, ClosePipesTypes DEF CloseChild, ResetTurn
<1>3. CASE CodexStep
  <2>1. ASSUME NEW i \in Items, StartItem(i)
        PROVE  CodexTypeOK'
    <3>1. [method |-> "item/started", item |-> i] \in Message
      BY DEF Message, StartedMsg
    <3> QED
      BY <2>1, <3>1, EmitTypes DEF StartItem
  <2>2. ASSUME NEW i \in Items, ReportItem(i)
        PROVE  CodexTypeOK'
    <3>1. [method |-> "item/completed", item |-> i, status |-> "inProgress"] \in Message
      BY DEF Message, CompletedMsg
    <3> QED
      BY <2>2, <3>1, EmitTypes DEF ReportItem
  <2>3. ASSUME NEW i \in Items, CompleteItem(i)
        PROVE  CodexTypeOK'
    <3>1. [method |-> "item/completed", item |-> i, status |-> "completed"] \in Message
      BY DEF Message, CompletedMsg
    <3> QED
      BY <2>3, <3>1, EmitTypes DEF CompleteItem
  <2>4. ASSUME NEW w \in WireIds, RequestApproval(w)
        PROVE  CodexTypeOK'
    <3>1. [method |-> "requestApproval", wire |-> w] \in Message
      BY DEF Message, ApprovalMsg
    <3> QED
      BY <2>4, <3>1, EmitTypes DEF RequestApproval
  <2>5. ASSUME NEW w \in WireIds, WithdrawRequest(w)
        PROVE  CodexTypeOK'
    <3>1. [method |-> "serverRequest/resolved", wire |-> w] \in Message
      BY DEF Message, ResolvedMsg
    <3> QED
      BY <2>5, <3>1, EmitTypes DEF WithdrawRequest
  <2>6. CASE TakeDecision
    <3>0. Head(outbound) \in Answer /\ Tail(outbound) \in Seq(Answer)
      BY <2>6, HeadTailProperties DEF TakeDecision, PipeTypeOK
    <3>1. Head(outbound).wire \in WireIds
      BY <3>0 DEF Answer
    <3>2. [method |-> "serverRequest/resolved", wire |-> Head(outbound).wire] \in Message
      BY <3>1 DEF Message, ResolvedMsg
    <3>3. inbound' \in Seq(Message) /\ Len(inbound') = Len(inbound) + 1
      BY <2>6, <3>2 DEF TakeDecision, Emit, PipeTypeOK
    <3>4. buffered' \in 0..Len(inbound')
      BY <2>6, <3>3 DEF TakeDecision, PipeTypeOK
    <3> QED
      BY <2>6, <3>0, <3>1, <3>3, <3>4 DEF TakeDecision, PipeTypeOK
  <2>7. CASE IgnoreDecision
    BY <2>7 DEF IgnoreDecision, turnVars, PipeTypeOK
  <2>8. CASE CompleteTurn
    <3>1. [method |-> "turn/completed"] \in Message
      BY DEF Message, TurnMsg
    <3> QED
      BY <2>8, <3>1, EmitTypes DEF CompleteTurn
  <2>9. CASE Die
    BY <2>9 DEF Die, turnVars, PipeTypeOK
  <2> QED
    BY <1>3, <2>1, <2>2, <2>3, <2>4, <2>5, <2>6, <2>7, <2>8, <2>9 DEF CodexStep
<1>4. CASE ReadLine /\ UNCHANGED turnVars
  BY <1>4 DEF ReadLine, turnVars, PipeTypeOK
<1>5. ASSUME NEW x \in Answer, SendLine(x) /\ UNCHANGED turnVars
      PROVE  CodexTypeOK'
  BY <1>5 DEF SendLine, turnVars, PipeTypeOK
<1>6. CASE running' = TRUE /\ turn' = "active"
           /\ UNCHANGED <<codex, itemState, inbound, buffered, outbound>>
  BY <1>6 DEF PipeTypeOK
<1> QED
  BY <1>1, <1>2, <1>3, <1>4, <1>5, <1>6

-----------------------------------------------------------------------------

(* What is left of TypeOK. *)
ServiceTypeOK ==
  /\ loop \in ServiceSteps
  /\ run \in 0..MaxRuns
  /\ cursor \in Nat
  /\ batch \in Seq(Response)
  /\ changed \in BOOLEAN
  /\ turnCompleted \in BOOLEAN
  /\ loop = "audit" => batch # <<>>

FilesTypeOK ==
  /\ queue \in Seq(Response)
  /\ stateFile \in [status : Statuses, pending : SUBSET RequestIds, run : 0..MaxRuns]
  /\ client \in [Clients -> Process]

ResolutionRecord ==
  [id : RequestIds, stale : BOOLEAN,
   reason : {"server_request_resolved", "item_completed", "response_rejected"}]

AuditTypeOK ==
  /\ approvalsLog \subseteq RequestIds
  /\ decisionsLog \in Seq([id : RequestIds, decision : Decisions])
  /\ resolutionsLog \subseteq ResolutionRecord
  /\ pastAudit \in [approvals : SUBSET RequestIds, accounted : SUBSET RequestIds]
  /\ sent \in Seq([wire : WireIds, response : Response])

TypeInv ==
  BrokerTypeOK /\ CodexTypeOK /\ ServiceTypeOK /\ FilesTypeOK /\ AuditTypeOK

LEMMA ResolutionTypes ==
  \A r \in RequestIds : \A stale \in BOOLEAN :
    /\ Resolution(r, "server_request_resolved", stale) \in ResolutionRecord
    /\ Resolution(r, "item_completed", stale) \in ResolutionRecord
    /\ Resolution(r, "response_rejected", stale) \in ResolutionRecord
  BY DEF Resolution, ResolutionRecord

LEMMA TypeInvImplies == TypeInv => TypeOK
  BY DEF TypeInv, TypeOK, ServiceTypeOK, FilesTypeOK, AuditTypeOK, ResolutionRecord

LEMMA TypeInit == Init => TypeInv
<1> SUFFICES ASSUME Init PROVE TypeInv
  OBVIOUS
<1>1. BrokerTypeOK
  BY DEF Init, NewBroker, BrokerTypeOK
<1>2. CodexTypeOK
  <2>1. inbound \in Seq(Message) /\ Len(inbound) = 0 /\ outbound \in Seq(Answer)
    BY DEF Init, PipesEmpty
  <2>2. buffered \in 0..Len(inbound)
    BY <2>1 DEF Init, PipesEmpty
  <2>3. running \in BOOLEAN
    BY DEF Init, PipesEmpty
  <2> QED
    BY <2>1, <2>2, <2>3 DEF Init, NoTurn, CodexTypeOK, PipeTypeOK
<1>3. ServiceTypeOK
  <2>1. changed \in BOOLEAN /\ turnCompleted \in BOOLEAN
    BY DEF Init
  <2>2. batch \in Seq(Response)
    BY DEF Init
  <2> QED
    BY <2>1, <2>2, BoundsAssumption DEF Init, ServiceTypeOK, ServiceSteps
<1>4. FilesTypeOK
  BY BoundsAssumption DEF Init, FilesTypeOK, Statuses, Process
<1>5. AuditTypeOK
  BY DEF Init, AuditTypeOK
<1> QED
  BY <1>1, <1>2, <1>3, <1>4, <1>5 DEF TypeInv

(* A write of the state file has the type of the file. *)
LEMMA WriteStateTypes ==
  ASSUME ServiceTypeOK, FilesTypeOK, NEW s \in Statuses, WriteState(s)
  PROVE  stateFile' \in [status : Statuses, pending : SUBSET RequestIds, run : 0..MaxRuns]
  BY DEF ServiceTypeOK, WriteState, PendingIds, PendingIn

LEMMA EndProcessTypes ==
  ASSUME TypeInv, EndProcess,
         stateFile' \in [status : Statuses, pending : SUBSET RequestIds, run : 0..MaxRuns]
  PROVE  TypeInv'
<1>1. BrokerTypeOK'
  BY BrokerTypes DEF TypeInv, EndProcess
<1>2. CodexTypeOK'
  BY CodexTypes DEF TypeInv, EndProcess
<1>3. ServiceTypeOK'
  <2>1. changed' \in BOOLEAN /\ turnCompleted' \in BOOLEAN
    BY DEF EndProcess
  <2>2. batch' \in Seq(Response)
    BY DEF EndProcess
  <2> QED
    BY <2>1, <2>2 DEF TypeInv, EndProcess, ServiceTypeOK, ServiceSteps
<1>4. FilesTypeOK'
  BY DEF TypeInv, EndProcess, FilesTypeOK
<1>5. AuditTypeOK'
  BY DEF TypeInv, EndProcess, AuditTypeOK, auditVars
<1> QED
  BY <1>1, <1>2, <1>3, <1>4, <1>5 DEF TypeInv

(* What a run leaves in the audit files has their type. *)
LEMMA PastAuditTypes ==
  ASSUME AuditTypeOK,
         pastAudit' = [approvals |-> pastAudit.approvals \cup approvalsLog,
                       accounted |-> pastAudit.accounted \cup Accounted]
  PROVE  pastAudit' \in [approvals : SUBSET RequestIds, accounted : SUBSET RequestIds]
<1>1. \A k \in DOMAIN decisionsLog : decisionsLog[k].id \in RequestIds
  <2> SUFFICES ASSUME NEW k \in DOMAIN decisionsLog
               PROVE  decisionsLog[k].id \in RequestIds
    OBVIOUS
  <2>1. decisionsLog \in Seq([id : RequestIds, decision : Decisions])
    BY DEF AuditTypeOK
  <2>2. k \in 1..Len(decisionsLog)
    BY <2>1, LenProperties
  <2>3. decisionsLog[k] \in [id : RequestIds, decision : Decisions]
    BY <2>1, <2>2, ElementOfSeq
  <2> QED
    BY <2>3
<1>2. \A e \in resolutionsLog : e.id \in RequestIds
  BY DEF AuditTypeOK, ResolutionRecord
<1>3. Accounted \subseteq RequestIds
  BY <1>1, <1>2 DEF Accounted
<1>4. /\ pastAudit.approvals \cup approvalsLog \subseteq RequestIds
      /\ pastAudit.accounted \cup Accounted \subseteq RequestIds
  BY <1>3 DEF AuditTypeOK
<1> QED
  BY <1>4

(* The steps of a run's beginning and end. *)
LEMMA RunTypes ==
  ASSUME TypeInv,
         \/ Start \/ WriteStarting \/ Handshake \/ HandshakeFails \/ Timeout
         \/ WriteFinal \/ WriteError \/ Kill
  PROVE  TypeInv'
<1> USE BoundsAssumption DEF ServiceSteps, LoopSteps, fileVars, auditVars
<1>1. CASE Start
  <2>1. BrokerTypeOK' /\ CodexTypeOK'
    BY <1>1, BrokerTypes, CodexTypes DEF Start, TypeInv
  <2>2. ServiceTypeOK'
    BY <1>1 DEF Start, TypeInv, ServiceTypeOK
  <2>4. pastAudit' \in [approvals : SUBSET RequestIds, accounted : SUBSET RequestIds]
    BY <1>1, PastAuditTypes DEF Start, TypeInv
  <2>5. FilesTypeOK'
    BY <1>1 DEF Start, TypeInv, FilesTypeOK
  <2>6. AuditTypeOK'
    <3>1. /\ approvalsLog' = {} /\ resolutionsLog' = {}
          /\ decisionsLog' = <<>> /\ sent' = <<>>
      BY <1>1 DEF Start
    <3> QED
      BY <2>4, <3>1 DEF AuditTypeOK
  <2> QED
    BY <2>1, <2>2, <2>5, <2>6 DEF TypeInv
<1>2. CASE WriteStarting
  <2>1. BrokerTypeOK' /\ CodexTypeOK'
    BY <1>2, BrokerTypes, CodexTypes DEF WriteStarting, TypeInv
  <2>2. ServiceTypeOK'
    BY <1>2 DEF WriteStarting, TypeInv, ServiceTypeOK
  <2>3. FilesTypeOK' /\ AuditTypeOK'
    BY <1>2, WriteStateTypes DEF WriteStarting, TypeInv, FilesTypeOK, AuditTypeOK, Statuses
  <2> QED
    BY <2>1, <2>2, <2>3 DEF TypeInv
<1>3. CASE Handshake
  <2>1. BrokerTypeOK' /\ CodexTypeOK'
    BY <1>3, BrokerTypes, CodexTypes DEF Handshake, TypeInv
  <2>2. ServiceTypeOK'
    BY <1>3 DEF Handshake, TypeInv, ServiceTypeOK
  <2>3. FilesTypeOK' /\ AuditTypeOK'
    BY <1>3, WriteStateTypes DEF Handshake, TypeInv, FilesTypeOK, AuditTypeOK, Statuses
  <2> QED
    BY <2>1, <2>2, <2>3 DEF TypeInv
<1>4. CASE HandshakeFails \/ Timeout
  <2>1. BrokerTypeOK' /\ CodexTypeOK'
    BY <1>4, BrokerTypes, CodexTypes DEF HandshakeFails, Timeout, TypeInv
  <2>2. ServiceTypeOK'
    BY <1>4 DEF HandshakeFails, Timeout, TypeInv, ServiceTypeOK
  <2>3. FilesTypeOK' /\ AuditTypeOK'
    BY <1>4 DEF HandshakeFails, Timeout, TypeInv, FilesTypeOK, AuditTypeOK
  <2> QED
    BY <2>1, <2>2, <2>3 DEF TypeInv
<1>5. CASE WriteFinal
  <2>1. (IF turnCompleted THEN "completed" ELSE "timeout") \in Statuses
    BY DEF Statuses
  <2> QED
    BY <1>5, <2>1, WriteStateTypes, EndProcessTypes DEF WriteFinal, TypeInv
<1>6. CASE WriteError
  <2>1. "error" \in Statuses
    BY DEF Statuses
  <2> QED
    BY <1>6, <2>1, WriteStateTypes, EndProcessTypes DEF WriteError, TypeInv
<1>7. CASE Kill
  BY <1>7, EndProcessTypes DEF Kill, TypeInv, FilesTypeOK
<1> QED
  BY <1>1, <1>2, <1>3, <1>4, <1>5, <1>6, <1>7

(***************************************************************************)
(* An answer, whichever way its decision came in: the request leaves       *)
(* pending, its decision is written to Codex and remembered in sent.       *)
(***************************************************************************)
Answers(x) ==
  /\ InLoop /\ InLoop'
  /\ SendDecision(x.id)
  /\ SendLine([wire |-> pending[x.id], decision |-> x.decision])
  /\ sent' = Append(sent, [wire |-> pending[x.id], response |-> x])
  /\ UNCHANGED <<turnVars, auditVars>>

LEMMA QueuedAnswers ==
  ASSUME TypeInv, AnswerQueued
  PROVE  Head(batch) \in Response /\ Answers(Head(batch))
<1>1. Head(batch) \in Response
  BY HeadTailProperties DEF AnswerQueued, TypeInv, ServiceTypeOK
<1> QED
  BY <1>1 DEF AnswerQueued, Answers, InLoop, LoopSteps

LEMMA AnswerTypes ==
  ASSUME TypeInv, NEW x \in Response, Answers(x)
  PROVE  /\ BrokerTypeOK' /\ CodexTypeOK'
         /\ sent' \in Seq([wire : WireIds, response : Response])
<1>1. x.id \in RequestIds /\ x.decision \in Decisions
  BY DEF Response
<1>2. pending[x.id] \in WireIds
  BY <1>1 DEF Answers, SendDecision, TypeInv, BrokerTypeOK
<1>3. BrokerTypeOK'
  BY <1>1, BrokerTypes DEF Answers, TypeInv
<1>4. [wire |-> pending[x.id], decision |-> x.decision] \in Answer
  BY <1>1, <1>2 DEF Answer
<1>5. CodexTypeOK'
  BY <1>4, CodexTypes DEF Answers, TypeInv
<1>6. [wire |-> pending[x.id], response |-> x] \in [wire : WireIds, response : Response]
  BY <1>2
<1>7. sent' \in Seq([wire : WireIds, response : Response])
  BY <1>6 DEF Answers, TypeInv, AuditTypeOK
<1> QED
  BY <1>3, <1>5, <1>7

(* The steps of a pass of the loop. *)
LEMMA PassTypes ==
  ASSUME TypeInv,
         \/ LoadResponses \/ AnswerQueued \/ AnswerFails \/ RecordDecision
         \/ RejectQueued \/ DrainDone
         \/ ReadMessage \/ ReadTimesOut \/ PublishAndContinue \/ PublishAndFinish
  PROVE  TypeInv'
<1> USE DEF ServiceSteps, LoopSteps, fileVars, auditVars
<1>1. CASE LoadResponses
  <2>1. BrokerTypeOK' /\ CodexTypeOK'
    BY <1>1, BrokerTypes, CodexTypes DEF LoadResponses, TypeInv
  <2>2. batch' \in Seq(Response) /\ cursor' \in Nat
    BY <1>1, SubSeqProperties DEF LoadResponses, TypeInv, FilesTypeOK, ServiceTypeOK
  <2>3. changed' \in BOOLEAN
    BY <1>1 DEF LoadResponses
  <2>4. ServiceTypeOK'
    BY <1>1, <2>2, <2>3 DEF LoadResponses, TypeInv, ServiceTypeOK
  <2>5. FilesTypeOK' /\ AuditTypeOK'
    BY <1>1 DEF LoadResponses, TypeInv, FilesTypeOK, AuditTypeOK
  <2> QED
    BY <2>1, <2>4, <2>5 DEF TypeInv
<1>2. CASE AnswerQueued
  <2>1. /\ BrokerTypeOK' /\ CodexTypeOK'
        /\ sent' \in Seq([wire : WireIds, response : Response])
    BY <1>2, QueuedAnswers, AnswerTypes
  <2>2. ServiceTypeOK' /\ FilesTypeOK' /\ AuditTypeOK'
    BY <1>2, <2>1 DEF AnswerQueued, TypeInv, ServiceTypeOK, FilesTypeOK, AuditTypeOK
  <2> QED
    BY <2>1, <2>2 DEF TypeInv
<1>3. CASE AnswerFails
  <2>0. Head(batch) \in Response
    BY <1>3, HeadTailProperties DEF AnswerFails, TypeInv, ServiceTypeOK
  <2>1. Head(batch).id \in RequestIds
    BY <2>0 DEF Response
  <2>2. BrokerTypeOK' /\ CodexTypeOK'
    BY <1>3, <2>1, BrokerTypes, CodexTypes DEF AnswerFails, TypeInv
  <2>3. ServiceTypeOK' /\ FilesTypeOK' /\ AuditTypeOK'
    BY <1>3 DEF AnswerFails, TypeInv, ServiceTypeOK, FilesTypeOK, AuditTypeOK
  <2> QED
    BY <2>2, <2>3 DEF TypeInv
<1>4. CASE RecordDecision
  <2>1. BrokerTypeOK' /\ CodexTypeOK'
    BY <1>4, BrokerTypes, CodexTypes DEF RecordDecision, TypeInv
  <2>2. Head(batch) \in Response /\ batch' \in Seq(Response)
    BY <1>4, HeadTailProperties DEF RecordDecision, TypeInv, ServiceTypeOK
  <2>3. changed' \in BOOLEAN
    BY <1>4 DEF RecordDecision
  <2>4. ServiceTypeOK'
    BY <1>4, <2>2, <2>3 DEF RecordDecision, TypeInv, ServiceTypeOK
  <2>5. FilesTypeOK'
    BY <1>4 DEF RecordDecision, TypeInv, FilesTypeOK
  <2>6. [id |-> Head(batch).id, decision |-> Head(batch).decision]
          \in [id : RequestIds, decision : Decisions]
    BY <2>2 DEF Response
  <2>7. AuditTypeOK'
    BY <1>4, <2>6 DEF RecordDecision, TypeInv, AuditTypeOK
  <2> QED
    BY <2>1, <2>4, <2>5, <2>7 DEF TypeInv
<1>5. CASE RejectQueued
  <2>1. BrokerTypeOK' /\ CodexTypeOK'
    BY <1>5, BrokerTypes, CodexTypes DEF RejectQueued, TypeInv
  <2>2. Head(batch) \in Response /\ batch' \in Seq(Response)
    BY <1>5, HeadTailProperties DEF RejectQueued, TypeInv, ServiceTypeOK
  <2>3. changed' \in BOOLEAN
    BY <1>5 DEF RejectQueued
  <2>4. ServiceTypeOK'
    BY <1>5, <2>2, <2>3 DEF RejectQueued, TypeInv, ServiceTypeOK
  <2>5. FilesTypeOK'
    BY <1>5 DEF RejectQueued, TypeInv, FilesTypeOK
  <2>6. Resolution(Head(batch).id, "response_rejected", TRUE) \in ResolutionRecord
    BY <2>2, ResolutionTypes DEF Response
  <2>7. AuditTypeOK'
    BY <1>5, <2>6 DEF RejectQueued, TypeInv, AuditTypeOK
  <2> QED
    BY <2>1, <2>4, <2>5, <2>7 DEF TypeInv
<1>6. CASE DrainDone \/ ReadTimesOut
  <2>1. BrokerTypeOK' /\ CodexTypeOK'
    BY <1>6, BrokerTypes, CodexTypes DEF DrainDone, ReadTimesOut, ReadNothing, codexVars, TypeInv
  <2>2. ServiceTypeOK' /\ FilesTypeOK' /\ AuditTypeOK'
    BY <1>6 DEF DrainDone, ReadTimesOut, TypeInv, ServiceTypeOK, FilesTypeOK, AuditTypeOK
  <2> QED
    BY <2>1, <2>2 DEF TypeInv
<1>7. CASE ReadMessage
  <2> DEFINE m == Head(inbound)
  <2>1. m \in Message
    BY <1>7, HeadTailProperties DEF ReadMessage, ReadLine, TypeInv, CodexTypeOK, PipeTypeOK
  <2>2. BrokerTypeOK' /\ CodexTypeOK'
    BY <1>7, <2>1, BrokerTypes, CodexTypes DEF ReadMessage, TypeInv
  <2>3. changed' \in BOOLEAN /\ turnCompleted' \in BOOLEAN
    BY <1>7 DEF ReadMessage
  <2>4. ServiceTypeOK' /\ FilesTypeOK'
    BY <1>7, <2>3 DEF ReadMessage, TypeInv, ServiceTypeOK, FilesTypeOK
  <2>5. ApprovalsOf(m) \subseteq RequestIds
    BY <2>1, NormalizedAssumption DEF ApprovalsOf, Message, ApprovalMsg, ResolvedMsg,
                                      StartedMsg, CompletedMsg, TurnMsg
  <2>6. ResolutionsOf(m) \subseteq ResolutionRecord
    <3>1. CASE m.method = "serverRequest/resolved"
      <4>1. Normalized[m.wire] \in RequestIds
        BY <2>1, <3>1, NormalizedAssumption DEF Message, ApprovalMsg, ResolvedMsg,
                                                StartedMsg, CompletedMsg, TurnMsg
      <4>2. ResolvedStale(Normalized[m.wire]) \in BOOLEAN
        BY DEF ResolvedStale
      <4> QED
        BY <3>1, <4>1, <4>2, ResolutionTypes DEF ResolutionsOf
    <3>2. CASE m.method # "serverRequest/resolved"
      <4>1. FALSE \in BOOLEAN
        OBVIOUS
      <4> QED
        BY <3>2, <4>1, ResolutionTypes DEF ResolutionsOf, PendingOf, PendingIds, PendingIn
    <3> QED
      BY <3>1, <3>2
  <2>7. AuditTypeOK'
    BY <1>7, <2>5, <2>6 DEF ReadMessage, TypeInv, AuditTypeOK
  <2> QED
    BY <2>2, <2>4, <2>7 DEF TypeInv
<1>8. CASE PublishAndContinue \/ PublishAndFinish
  <2>1. BrokerTypeOK' /\ CodexTypeOK'
    BY <1>8, BrokerTypes, CodexTypes DEF PublishAndContinue, PublishAndFinish, TypeInv
  <2>2. LoopStatus \in Statuses
    BY DEF LoopStatus, Statuses
  <2>3. stateFile' \in [status : Statuses, pending : SUBSET RequestIds, run : 0..MaxRuns]
    BY <1>8, <2>2, WriteStateTypes
       DEF PublishAndContinue, PublishAndFinish, TypeInv, FilesTypeOK
  <2>4. ServiceTypeOK' /\ FilesTypeOK' /\ AuditTypeOK'
    BY <1>8, <2>3
       DEF PublishAndContinue, PublishAndFinish, TypeInv, ServiceTypeOK, FilesTypeOK, AuditTypeOK
  <2> QED
    BY <2>1, <2>4 DEF TypeInv
<1> QED
  BY <1>1, <1>2, <1>3, <1>4, <1>5, <1>6, <1>7, <1>8

(* The steps of a broker-respond process. *)
LEMMA ClientTypes ==
  ASSUME TypeInv, NEW c \in Clients, Ask(c) \/ Enqueue(c)
  PROVE  TypeInv'
<1> USE DEF ClientUnchanged, serviceVars, fileVars, auditVars
<1>1. BrokerTypeOK' /\ CodexTypeOK'
  BY BrokerTypes, CodexTypes
     DEF TypeInv, Ask, Enqueue, CheckStatus, CheckPending, CheckQueue, AppendResponse
<1>2. ServiceTypeOK' /\ AuditTypeOK'
  BY DEF TypeInv, Ask, Enqueue, CheckStatus, CheckPending, CheckQueue, AppendResponse,
         ServiceTypeOK, AuditTypeOK
<1>3. client[c] \in Process
  BY DEF TypeInv, FilesTypeOK
<1>4. ASSUME NEW step \in {"status", "pending", "queue", "append"},
             client[c].step # "idle", Advance(c, step)
      PROVE  client' \in [Clients -> Process]
  <2>1. client[c] # Idle
    BY <1>4 DEF Idle
  <2>2. [client[c] EXCEPT !.step = step] \in Process
    BY <1>3, <2>1 DEF Process
  <2>3. client' = [client EXCEPT ![c] = [client[c] EXCEPT !.step = step]]
    BY <1>4 DEF Advance
  <2> QED
    BY <2>2, <2>3 DEF TypeInv, FilesTypeOK
<1>5. GiveUp(c) => client' \in [Clients -> Process]
  BY DEF TypeInv, FilesTypeOK, GiveUp, Process
<1>6. FilesTypeOK'
  <2>1. CASE Ask(c)
    <3>1. PICK r \in stateFile.pending, d \in Decisions :
            client' = [client EXCEPT ![c] =
                         [step |-> "status",
                          response |-> [id |-> r, decision |-> d, run |-> stateFile.run]]]
      BY <2>1 DEF Ask
    <3>2. [id |-> r, decision |-> d, run |-> stateFile.run] \in Response
      BY DEF TypeInv, FilesTypeOK, Response
    <3>3. client' \in [Clients -> Process]
      BY <3>1, <3>2 DEF TypeInv, FilesTypeOK, Process
    <3> QED
      BY <2>1, <3>3 DEF Ask, TypeInv, FilesTypeOK
  <2>2. CASE CheckStatus(c)
    BY <2>2, <1>4, <1>5 DEF CheckStatus, TypeInv, FilesTypeOK
  <2>3. CASE CheckPending(c)
    BY <2>3, <1>4, <1>5 DEF CheckPending, TypeInv, FilesTypeOK
  <2>4. CASE CheckQueue(c)
    BY <2>4, <1>4, <1>5 DEF CheckQueue, TypeInv, FilesTypeOK
  <2>5. CASE AppendResponse(c)
    <3>1. client[c] # Idle
      BY <2>5 DEF AppendResponse, Idle
    <3>2. client[c].response \in Response
      BY <1>3, <3>1 DEF Process
    <3> QED
      BY <2>5, <3>2, <1>5 DEF AppendResponse, TypeInv, FilesTypeOK
  <2> QED
    BY <2>1, <2>2, <2>3, <2>4, <2>5 DEF Enqueue
<1> QED
  BY <1>1, <1>2, <1>6 DEF TypeInv

LEMMA EnvironmentTypes ==
  ASSUME TypeInv, Environment
  PROVE  TypeInv'
<1>1. BrokerTypeOK' /\ CodexTypeOK'
  BY BrokerTypes, CodexTypes DEF TypeInv, Environment
<1>2. ServiceTypeOK' /\ FilesTypeOK' /\ AuditTypeOK'
  BY DEF TypeInv, Environment, ServiceTypeOK, FilesTypeOK, AuditTypeOK, serviceVars,
         fileVars, auditVars
<1> QED
  BY <1>1, <1>2 DEF TypeInv

LEMMA StutterTypes ==
  ASSUME TypeInv, UNCHANGED vars
  PROVE  TypeInv'
<1>1. BrokerTypeOK' /\ CodexTypeOK'
  BY BrokerTypes, CodexTypes DEF TypeInv, vars
<1>2. ServiceTypeOK' /\ FilesTypeOK' /\ AuditTypeOK'
  BY DEF TypeInv, vars, ServiceTypeOK, FilesTypeOK, AuditTypeOK, serviceVars, fileVars,
         auditVars
<1> QED
  BY <1>1, <1>2 DEF TypeInv

LEMMA TypeStep == TypeInv /\ [Next]_vars => TypeInv'
<1> SUFFICES ASSUME TypeInv, [Next]_vars PROVE TypeInv'
  OBVIOUS
<1> QED
  BY RunTypes, PassTypes, ClientTypes, EnvironmentTypes, StutterTypes DEF Next, ServiceStep

(***************************************************************************)
(* Every variable of the service, the files, the clients and the App       *)
(* Server keeps its type, for any constants.                               *)
(***************************************************************************)
THEOREM TypeCorrect == Spec => []TypeOK
<1>1. Spec => []TypeInv
  BY TypeInit, TypeStep, PTL DEF Spec
<1> QED
  BY <1>1, TypeInvImplies, PTL

-----------------------------------------------------------------------------
(***************************************************************************)
(* At most one answer.  AtMostOneAnswer is not inductive: that no second   *)
(* decision is written for a request follows from what the broker and the  *)
(* App Server know about it at every moment.                               *)
(*                                                                         *)
(* Outside the loop no App Server runs, and until the loop begins nothing  *)
(* is remembered of an earlier run.                                        *)
(***************************************************************************)
NoChild ==
  /\ ~running
  /\ inbound = <<>>
  /\ \A w \in WireIds : codex[w] = "idle"

NothingPending == \A r \in RequestIds : pending[r] = NoWire

Phases ==
  /\ ~InLoop => NoChild
  /\ loop \in {"down", "starting", "handshake"} => NothingPending
  /\ loop \in {"starting", "handshake"} => sent = <<>> /\ approvalsLog = {}

(***************************************************************************)
(* A request the App Server has not made is unknown.  One whose message is *)
(* unread was sent once and is neither pending nor answered; one that is   *)
(* pending is filed under its own id and is not answered.                  *)
(***************************************************************************)
IsApproval(m, w) == m.method = "requestApproval" /\ m.wire = w

UnaskedUnknown ==
  InLoop =>
    \A w \in WireIds : codex[w] = "idle" => ~Answered(w) /\ Normalized[w] \notin approvalsLog

UnreadOnce ==
  \A w \in WireIds : \A j, k \in DOMAIN inbound :
    IsApproval(inbound[j], w) /\ IsApproval(inbound[k], w) => j = k

UnreadUnknown ==
  \A w \in WireIds : \A k \in DOMAIN inbound :
    IsApproval(inbound[k], w) =>
      /\ codex[w] # "idle"
      /\ ~Answered(w)
      /\ Normalized[w] \notin approvalsLog

PendingUnanswered ==
  \A r \in RequestIds :
    pending[r] # NoWire =>
      /\ Normalized[pending[r]] = r
      /\ ~Answered(pending[r])
      /\ r \in approvalsLog
      /\ InLoop => codex[pending[r]] # "idle"

Known ==
  /\ UnaskedUnknown
  /\ UnreadOnce
  /\ UnreadUnknown
  /\ PendingUnanswered
  /\ AtMostOneAnswer

IInv == TypeInv /\ Phases /\ Known

knownVars == <<codex, inbound, approvalsLog, sent, pending>>

LEMMA KnownInit == Init => Phases /\ Known
<1> SUFFICES ASSUME Init PROVE Phases /\ Known
  OBVIOUS
<1>1. /\ loop = "down" /\ ~InLoop
      /\ inbound = <<>> /\ sent = <<>> /\ ~running
      /\ \A w \in WireIds : codex[w] = "idle"
      /\ \A r \in RequestIds : pending[r] = NoWire
  BY DEF Init, NewBroker, NoTurn, PipesEmpty, InLoop, LoopSteps
<1>2. Phases
  BY <1>1 DEF Phases, NoChild, NothingPending
<1>3. Known
  BY <1>1 DEF Known, UnaskedUnknown, UnreadOnce, UnreadUnknown, PendingUnanswered,
              AtMostOneAnswer
<1> QED
  BY <1>2, <1>3

(* Steps that touch nothing Known speaks of. *)
LEMMA KnownUnchanged ==
  ASSUME Known, UNCHANGED knownVars, InLoop' => InLoop
  PROVE  Known'
<1> USE DEF knownVars
<1>1. \A w : Answered(w)' <=> Answered(w)
  BY DEF Answered
<1> QED
  BY <1>1 DEF Known, UnaskedUnknown, UnreadOnce, UnreadUnknown, PendingUnanswered,
              AtMostOneAnswer

(* Steps that end the loop or the process. *)
LEMMA KnownClosed ==
  ASSUME Known, ~InLoop', inbound' = <<>>, UNCHANGED <<approvalsLog, sent>>,
         \A r \in RequestIds : pending'[r] = pending[r] \/ pending'[r] = NoWire
  PROVE  Known'
<1>1. \A w : Answered(w)' <=> Answered(w)
  BY DEF Answered
<1> QED
  BY <1>1 DEF Known, UnaskedUnknown, UnreadOnce, UnreadUnknown, PendingUnanswered,
              AtMostOneAnswer

(* The App Server writes a line that is no approval request. *)
LEMMA KnownEmitted ==
  ASSUME TypeInv, Known, NEW m \in Message, Emit(m), m.method # "requestApproval",
         \A w \in WireIds : codex'[w] = "idle" <=> codex[w] = "idle",
         UNCHANGED <<approvalsLog, sent, pending, loop>>
  PROVE  Known'
<1>1. \A w : Answered(w)' <=> Answered(w)
  BY DEF Answered
<1>2. inbound \in Seq(Message)
  BY DEF TypeInv, CodexTypeOK, PipeTypeOK
<1>3. \A k \in DOMAIN inbound' :
        \/ k \in DOMAIN inbound /\ inbound'[k] = inbound[k]
        \/ inbound'[k] = m
  BY <1>2 DEF Emit
<1>4. \A w \in WireIds, k \in DOMAIN inbound' :
        IsApproval(inbound'[k], w) => k \in DOMAIN inbound /\ IsApproval(inbound[k], w)
  BY <1>3 DEF IsApproval
<1>5. UnreadOnce' /\ UnreadUnknown'
  BY <1>1, <1>4 DEF Known, UnreadOnce, UnreadUnknown
<1>6. UnaskedUnknown' /\ AtMostOneAnswer'
  BY <1>1 DEF Known, UnaskedUnknown, InLoop, AtMostOneAnswer
<1>7. PendingUnanswered'
  BY <1>1 DEF TypeInv, BrokerTypeOK, Known, PendingUnanswered, InLoop
<1> QED
  BY <1>5, <1>6, <1>7 DEF Known

(* The App Server asks for an approval: nothing was known of it. *)
LEMMA KnownRequested ==
  ASSUME TypeInv, Phases, Known, NEW w \in WireIds, RequestApproval(w),
         UNCHANGED <<approvalsLog, sent, pending, loop>>
  PROVE  Known'
<1>1. \A v : Answered(v)' <=> Answered(v)
  BY DEF Answered
<1>2. InLoop /\ codex[w] = "idle" /\ codex'[w] = "open"
  BY DEF Phases, NoChild, RequestApproval, TypeInv, CodexTypeOK
<1>3. \A v \in WireIds : v # w => codex'[v] = codex[v]
  BY DEF RequestApproval, TypeInv, CodexTypeOK
<1>4. ~Answered(w) /\ Normalized[w] \notin approvalsLog
  BY <1>2 DEF Known, UnaskedUnknown
<1>5. inbound \in Seq(Message) /\ inbound' = Append(inbound, [method |-> "requestApproval", wire |-> w])
  BY DEF TypeInv, CodexTypeOK, PipeTypeOK, RequestApproval, Emit
<1>6. \A k \in DOMAIN inbound' :
        \/ k \in DOMAIN inbound /\ inbound'[k] = inbound[k]
        \/ k = Len(inbound) + 1 /\ inbound'[k] = [method |-> "requestApproval", wire |-> w]
  BY <1>5
<1>7. \A k \in DOMAIN inbound : ~IsApproval(inbound[k], w)
  BY <1>2 DEF Known, UnreadUnknown
<1>8. UnreadOnce' /\ UnreadUnknown'
  BY <1>1, <1>2, <1>3, <1>4, <1>6, <1>7 DEF Known, UnreadOnce, UnreadUnknown, IsApproval
<1>9. UnaskedUnknown' /\ AtMostOneAnswer'
  BY <1>1, <1>2, <1>3 DEF Known, UnaskedUnknown, InLoop, AtMostOneAnswer
<1>10. PendingUnanswered'
  BY <1>1, <1>2, <1>3 DEF TypeInv, BrokerTypeOK, Known, PendingUnanswered, InLoop
<1> QED
  BY <1>8, <1>9, <1>10 DEF Known

(* The broker sends a decision for what is pending. *)
LEMMA KnownAnswered ==
  ASSUME TypeInv, Known, NEW y \in Response, Answers(y)
  PROVE  Known'
<1> DEFINE r == y.id
           w == pending[r]
           x == [wire |-> w, response |-> y]
<1> USE NormalizedAssumption, NoWireAssumption
<1>2. r \in RequestIds
  BY DEF Response
<1>3. w \in WireIds /\ w # NoWire
  BY <1>2 DEF Answers, SendDecision, TypeInv, BrokerTypeOK
<1>4. Normalized[w] = r /\ ~Answered(w) /\ r \in approvalsLog /\ InLoop /\ codex[w] # "idle"
  BY <1>2, <1>3 DEF Answers, Known, PendingUnanswered
<1>5. /\ pending' = [pending EXCEPT ![r] = NoWire]
      /\ sent' = Append(sent, x)
      /\ UNCHANGED <<codex, inbound, approvalsLog>>
      /\ InLoop'
  BY DEF Answers, SendDecision, SendLine, turnVars, auditVars
<1>6. sent \in Seq([wire : WireIds, response : Response])
  BY DEF TypeInv, AuditTypeOK
<1>7. \A k \in DOMAIN sent' :
        \/ k \in DOMAIN sent /\ sent'[k] = sent[k]
        \/ k = Len(sent) + 1 /\ sent'[k].wire = w
  BY <1>5, <1>6
<1>8. \A v : v # w => (Answered(v)' => Answered(v))
  BY <1>7 DEF Answered
<1>9. AtMostOneAnswer'
  BY <1>4, <1>7 DEF Known, AtMostOneAnswer, Answered
<1>10. UnaskedUnknown' /\ UnreadOnce'
  BY <1>3, <1>4, <1>5, <1>8 DEF Known, UnaskedUnknown, UnreadOnce
<1>11. UnreadUnknown'
  BY <1>3, <1>4, <1>5, <1>8 DEF Known, UnreadUnknown
<1>12. PendingUnanswered'
  BY <1>2, <1>3, <1>4, <1>5, <1>8 DEF Known, PendingUnanswered, TypeInv, BrokerTypeOK
<1> QED
  BY <1>9, <1>10, <1>11, <1>12 DEF Known

(* The broker reads a message: an approval request becomes pending, any    *)
(* other message only closes what is pending.                              *)
LEMMA HandledPending ==
  ASSUME NEW m \in Message, HandleMessage(m), BrokerTypeOK
  PROVE  /\ m.method # "requestApproval" =>
              /\ ApprovalsOf(m) = {}
              /\ \A r \in RequestIds : pending'[r] = pending[r] \/ pending'[r] = NoWire
         /\ m.method = "requestApproval" =>
              /\ m.wire \in WireIds
              /\ ApprovalsOf(m) = {Normalized[m.wire]}
              /\ pending' = [pending EXCEPT ![Normalized[m.wire]] = m.wire]
<1>1. CASE m.method = "requestApproval"
  BY <1>1 DEF HandleMessage, HandleApproval, HandleItemStarted, HandleItemCompleted,
              HandleResolved, HandleTurnCompleted, ApprovalsOf, Message, ApprovalMsg,
              ResolvedMsg, StartedMsg, CompletedMsg, TurnMsg
<1>2. CASE m.method # "requestApproval"
  <2>1. ApprovalsOf(m) = {}
    BY <1>2 DEF ApprovalsOf
  <2>2. CASE HandleItemStarted(m) \/ HandleTurnCompleted(m)
    BY <2>1, <2>2, <1>2 DEF HandleItemStarted, HandleTurnCompleted, brokerVars
  <2>3. CASE HandleItemCompleted(m)
    BY <2>1, <2>3, <1>2 DEF HandleItemCompleted, CleanupForItem
  <2>4. CASE HandleResolved(m)
    BY <2>1, <2>4, <1>2 DEF HandleResolved, BrokerTypeOK
  <2> QED
    BY <1>2, <2>2, <2>3, <2>4 DEF HandleMessage, HandleApproval
<1> QED
  BY <1>1, <1>2

LEMMA KnownRead ==
  ASSUME TypeInv, Known, ReadMessage
  PROVE  Known'
<1> DEFINE m == Head(inbound)
<1> USE NormalizedAssumption, NoWireAssumption
<1>1. /\ inbound \in Seq(Message) /\ inbound # <<>>
      /\ inbound' = Tail(inbound)
      /\ UNCHANGED <<codex, sent>>
      /\ approvalsLog' = approvalsLog \cup ApprovalsOf(m)
      /\ HandleMessage(m)
      /\ InLoop /\ InLoop'
  BY DEF ReadMessage, ReadLine, TypeInv, CodexTypeOK, PipeTypeOK, turnVars, InLoop, LoopSteps
<1>2. m \in Message /\ m = inbound[1] /\ 1 \in DOMAIN inbound
  BY <1>1
<1>3. \A k \in DOMAIN inbound' : k + 1 \in DOMAIN inbound /\ inbound'[k] = inbound[k + 1]
                                 /\ k \in Nat \ {0}
  BY <1>1
<1>4. \A w : Answered(w)' <=> Answered(w)
  BY <1>1 DEF Answered
<1>5. AtMostOneAnswer'
  BY <1>1 DEF Known, AtMostOneAnswer
<1>6. UnreadOnce'
  <2> SUFFICES ASSUME NEW w \in WireIds, NEW j \in DOMAIN inbound', NEW k \in DOMAIN inbound',
                      IsApproval(inbound'[j], w), IsApproval(inbound'[k], w)
               PROVE  j = k
    BY DEF UnreadOnce
  <2>1. j + 1 = k + 1
    BY <1>3 DEF Known, UnreadOnce
  <2> QED
    BY <2>1, <1>3
<1>7. CASE m.method # "requestApproval"
  <2>1. /\ approvalsLog' = approvalsLog
        /\ \A r \in RequestIds : pending'[r] = pending[r] \/ pending'[r] = NoWire
    BY <1>1, <1>2, <1>7, HandledPending DEF TypeInv
  <2>2. UnaskedUnknown' /\ PendingUnanswered'
    BY <1>1, <1>4, <2>1 DEF Known, UnaskedUnknown, PendingUnanswered
  <2>3. UnreadUnknown'
    BY <1>1, <1>3, <1>4, <2>1 DEF Known, UnreadUnknown
  <2> QED
    BY <1>5, <1>6, <2>2, <2>3 DEF Known
<1>8. CASE m.method = "requestApproval"
  <2> DEFINE w == m.wire
  <2>1. /\ w \in WireIds
        /\ approvalsLog' = approvalsLog \cup {Normalized[w]}
        /\ pending' = [pending EXCEPT ![Normalized[w]] = w]
    BY <1>1, <1>2, <1>8, HandledPending DEF TypeInv
  <2>2. IsApproval(inbound[1], w)
    BY <1>2, <1>8 DEF IsApproval
  <2>3. codex[w] # "idle" /\ ~Answered(w)
    BY <1>2, <2>1, <2>2 DEF Known, UnreadUnknown
  <2>4. \A k \in DOMAIN inbound' : ~IsApproval(inbound'[k], w)
    <3> SUFFICES ASSUME NEW k \in DOMAIN inbound', IsApproval(inbound'[k], w)
                 PROVE  FALSE
      OBVIOUS
    <3>1. k + 1 = 1
      BY <1>2, <1>3, <2>1, <2>2 DEF Known, UnreadOnce
    <3> QED
      BY <1>3, <3>1
  <2>5. UnaskedUnknown'
    BY <1>1, <1>4, <2>1, <2>3 DEF Known, UnaskedUnknown
  <2>6. PendingUnanswered'
    BY <1>1, <1>4, <2>1, <2>3 DEF Known, PendingUnanswered, TypeInv, BrokerTypeOK
  <2>7. UnreadUnknown'
    BY <1>1, <1>3, <1>4, <2>1, <2>4 DEF Known, UnreadUnknown
  <2> QED
    BY <1>5, <1>6, <2>5, <2>6, <2>7 DEF Known
<1> QED
  BY <1>7, <1>8

(* Outside the loop there is no App Server. *)
LEMMA PhasesStep ==
  ASSUME TypeInv, Phases, [Next]_vars
  PROVE  Phases'
<1> USE DEF InLoop, LoopSteps
<1>1. CASE Start
  BY <1>1 DEF Start, Phases, NoChild, NothingPending, brokerVars, codexVars, turnVars, pipeVars
<1>2. CASE WriteStarting
  BY <1>2 DEF WriteStarting, Phases, NoChild, NothingPending, brokerVars, codexVars, turnVars,
              pipeVars, auditVars
<1>3. CASE Handshake
  BY <1>3 DEF Handshake, Phases
<1>4. CASE HandshakeFails \/ Timeout
  BY <1>4 DEF HandshakeFails, Timeout, Phases, NoChild, CloseChild, ResetTurn, ClosePipes
<1>5. CASE WriteFinal \/ WriteError \/ Kill
  BY <1>5 DEF WriteFinal, WriteError, Kill, EndProcess, Phases, NoChild, NothingPending,
              CloseChild, ResetTurn, ClosePipes, ResetBroker
<1>6. CASE LoadResponses \/ AnswerQueued \/ RecordDecision \/ RejectQueued \/ DrainDone
  BY <1>6 DEF LoadResponses, AnswerQueued, RecordDecision, RejectQueued, DrainDone, Phases
<1>7. CASE ReadMessage \/ ReadTimesOut \/ PublishAndContinue
  BY <1>7 DEF ReadMessage, ReadTimesOut, PublishAndContinue, Phases
<1>8. CASE AnswerFails \/ PublishAndFinish
  BY <1>8 DEF AnswerFails, PublishAndFinish, Phases, NoChild, CloseChild, ResetTurn, ClosePipes
<1>9. ASSUME NEW c \in Clients, Ask(c) \/ Enqueue(c)
      PROVE  Phases'
  <2>1. UNCHANGED <<pending, codex, inbound, running, loop, sent, approvalsLog>>
    BY <1>9 DEF Ask, Enqueue, CheckStatus, CheckPending, CheckQueue, AppendResponse,
                ClientUnchanged, brokerVars, codexVars, turnVars, pipeVars, serviceVars, auditVars
  <2> QED
    BY <2>1 DEF Phases, NoChild, NothingPending
<1>10. CASE Environment
  <2>1. running
    BY <1>10 DEF Environment, CodexStep, StartItem, ReportItem, CompleteItem, RequestApproval,
                 WithdrawRequest, TakeDecision, IgnoreDecision, CompleteTurn, Die
  <2>2. InLoop /\ InLoop'
    BY <1>10, <2>1 DEF Environment, serviceVars, Phases, NoChild
  <2> QED
    BY <2>2 DEF Phases
<1>11. CASE UNCHANGED vars
  BY <1>11 DEF vars, brokerVars, codexVars, turnVars, pipeVars, serviceVars, auditVars, Phases,
               NoChild, NothingPending
<1> QED
  BY <1>1, <1>2, <1>3, <1>4, <1>5, <1>6, <1>7, <1>8, <1>9, <1>10, <1>11 DEF Next, ServiceStep

LEMMA KnownStep ==
  ASSUME TypeInv, Phases, Known, [Next]_vars
  PROVE  Known'
<1> USE DEF InLoop, LoopSteps
<1>1. CASE Start \/ Handshake
  <2>1. /\ NothingPending' /\ inbound' = <<>> /\ sent' = <<>> /\ approvalsLog' = {}
    BY <1>1 DEF Start, Handshake, Phases, NoChild, NothingPending, brokerVars, codexVars,
                turnVars, pipeVars, auditVars
  <2> QED
    BY <2>1 DEF Known, UnaskedUnknown, UnreadOnce, UnreadUnknown, PendingUnanswered,
                AtMostOneAnswer, NothingPending, Answered
<1>2. CASE HandshakeFails \/ Timeout \/ PublishAndFinish
  BY <1>2, KnownClosed DEF HandshakeFails, Timeout, PublishAndFinish, CloseChild, ClosePipes,
                           auditVars, brokerVars
<1>3. CASE WriteFinal \/ WriteError \/ Kill
  BY <1>3, KnownClosed DEF WriteFinal, WriteError, Kill, EndProcess, CloseChild, ClosePipes,
                           ResetBroker, auditVars
<1>4. CASE AnswerFails
  <2>1. \A r \in RequestIds : pending'[r] = pending[r] \/ pending'[r] = NoWire
    BY <1>4 DEF AnswerFails, SendDecision, TypeInv, BrokerTypeOK
  <2> QED
    BY <1>4, <2>1, KnownClosed DEF AnswerFails, CloseChild, ClosePipes, auditVars
<1>5. CASE WriteStarting \/ LoadResponses \/ DrainDone \/ PublishAndContinue
  BY <1>5, KnownUnchanged DEF WriteStarting, LoadResponses, DrainDone, PublishAndContinue,
       knownVars, brokerVars, codexVars, turnVars, pipeVars, auditVars
<1>6. CASE RecordDecision \/ RejectQueued \/ ReadTimesOut
  BY <1>6, KnownUnchanged DEF RecordDecision, RejectQueued, ReadTimesOut, ReadNothing,
       knownVars, brokerVars, codexVars, turnVars, pipeVars, auditVars
<1>7. CASE AnswerQueued
  BY <1>7, QueuedAnswers, KnownAnswered
<1>8. CASE ReadMessage
  BY <1>8, KnownRead
<1>9. ASSUME NEW c \in Clients, Ask(c) \/ Enqueue(c)
      PROVE  Known'
  BY <1>9, KnownUnchanged
     DEF Ask, Enqueue, CheckStatus, CheckPending, CheckQueue, AppendResponse, ClientUnchanged,
         knownVars, brokerVars, codexVars, turnVars, pipeVars, serviceVars, auditVars
<1>10. CASE Environment
  <2>1. UNCHANGED <<pending, approvalsLog, sent, loop>>
    BY <1>10 DEF Environment, brokerVars, auditVars, serviceVars
  <2>2. ASSUME NEW i \in Items, StartItem(i) \/ ReportItem(i) \/ CompleteItem(i)
        PROVE  Known'
    <3>1. \A w \in WireIds : codex'[w] = "idle" <=> codex[w] = "idle"
      BY <2>2 DEF StartItem, ReportItem, CompleteItem
    <3>2. PICK m \in Message : Emit(m) /\ m.method # "requestApproval"
      BY <2>2 DEF StartItem, ReportItem, CompleteItem, Message, StartedMsg, CompletedMsg
    <3> QED
      BY <2>1, <3>1, <3>2, KnownEmitted
  <2>3. ASSUME NEW w \in WireIds, RequestApproval(w)
        PROVE  Known'
    BY <2>1, <2>3, KnownRequested
  <2>4. ASSUME NEW w \in WireIds, WithdrawRequest(w)
        PROVE  Known'
    <3>1. \A v \in WireIds : codex'[v] = "idle" <=> codex[v] = "idle"
      BY <2>4 DEF WithdrawRequest, TypeInv, CodexTypeOK
    <3>2. [method |-> "serverRequest/resolved", wire |-> w] \in Message
      BY DEF Message, ResolvedMsg
    <3> QED
      BY <2>1, <2>4, <3>1, <3>2, KnownEmitted DEF WithdrawRequest
  <2>5. CASE TakeDecision
    <3>1. Head(outbound) \in Answer
      BY <2>5, HeadTailProperties DEF TakeDecision, TypeInv, CodexTypeOK, PipeTypeOK
    <3>2. Head(outbound).wire \in WireIds
      BY <3>1 DEF Answer
    <3>3. \A v \in WireIds : codex'[v] = "idle" <=> codex[v] = "idle"
      BY <2>5, <3>2 DEF TakeDecision, TypeInv, CodexTypeOK
    <3>4. [method |-> "serverRequest/resolved", wire |-> Head(outbound).wire] \in Message
      BY <3>2 DEF Message, ResolvedMsg
    <3> QED
      BY <2>1, <2>5, <3>3, <3>4, KnownEmitted DEF TakeDecision
  <2>6. CASE IgnoreDecision \/ Die
    BY <2>1, <2>6, KnownUnchanged DEF IgnoreDecision, Die, turnVars, knownVars
  <2>7. CASE CompleteTurn
    <3>1. [method |-> "turn/completed"] \in Message
      BY DEF Message, TurnMsg
    <3> QED
      BY <2>1, <2>7, <3>1, KnownEmitted DEF CompleteTurn
  <2> QED
    BY <1>10, <2>2, <2>3, <2>4, <2>5, <2>6, <2>7 DEF Environment, CodexStep
<1>11. CASE UNCHANGED vars
  BY <1>11, KnownUnchanged DEF vars, knownVars, brokerVars, codexVars, turnVars, pipeVars,
                               serviceVars, auditVars
<1> QED
  BY <1>1, <1>2, <1>3, <1>4, <1>5, <1>6, <1>7, <1>8, <1>9, <1>10, <1>11 DEF Next, ServiceStep

LEMMA Inductive == Spec => []IInv
<1>1. Init => IInv
  BY TypeInit, KnownInit DEF IInv
<1>2. IInv /\ [Next]_vars => IInv'
  BY TypeStep, PhasesStep, KnownStep DEF IInv
<1> QED
  BY <1>1, <1>2, PTL DEF Spec

(***************************************************************************)
(* Codex is sent at most one decision for a request, with any number of    *)
(* broker-respond processes, responses and runs.                           *)
(***************************************************************************)
THEOREM AnsweredOnce == Spec => []AtMostOneAnswer
<1>1. IInv => AtMostOneAnswer
  BY DEF IInv, Known
<1> QED
  BY <1>1, Inductive, PTL

-----------------------------------------------------------------------------
(***************************************************************************)
(* The broker and Codex agree on what is pending: no request Codex waits   *)
(* on is forgotten, none is kept that Codex has closed, the confirmation   *)
(* of an answer is never taken for a stale one, and a turn published as    *)
(* completed leaves nothing pending.                                       *)
(*                                                                         *)
(* All of it rests on the order of the pipe: what the App Server writes of *)
(* a request is read in the order it was written.                          *)
(***************************************************************************)
-----------------------------------------------------------------------------
(***************************************************************************)
(* The pipe from the App Server.                                           *)
(***************************************************************************)
IsResolved(m, w) == m.method = "serverRequest/resolved" /\ m.wire = w
IsCompleted(m, i) == m.method = "item/completed" /\ m.item = i /\ m.status = "completed"
Closes(m, w) == IsResolved(m, w) \/ IsCompleted(m, ItemOf[w])

(* A message that closes a request was written when it was closed, once,   *)
(* and a completed item has no open request.                               *)
ClosedIsClosed ==
  /\ \A w \in WireIds, k \in DOMAIN inbound : IsResolved(inbound[k], w) => codex[w] = "closed"
  /\ \A i \in Items, k \in DOMAIN inbound :
       IsCompleted(inbound[k], i) => itemState[i] = "completed"
  /\ \A w \in WireIds : codex[w] = "open" => itemState[ItemOf[w]] # "completed"

ResolvedOnce ==
  \A w \in WireIds : \A j, k \in DOMAIN inbound :
    IsResolved(inbound[j], w) /\ IsResolved(inbound[k], w) => j = k

(* The request is written before what closes it: unread, it is open, or    *)
(* its closing is behind it; and no resolution is ahead of it.             *)
AskedBeforeClosed ==
  \A w \in WireIds : \A k \in DOMAIN inbound :
    IsApproval(inbound[k], w) =>
      /\ codex[w] = "open" \/ \E j \in DOMAIN inbound : j > k /\ Closes(inbound[j], w)
      /\ \A j \in DOMAIN inbound : IsResolved(inbound[j], w) => j > k

PipeInv == ClosedIsClosed /\ ResolvedOnce /\ AskedBeforeClosed

(***************************************************************************)
(* Answers and their confirmations.  An answered request is remembered     *)
(* until its one resolution is read; a request logged as resolved and      *)
(* stale is over, and can be answered no more.                             *)
(***************************************************************************)
Remembered ==
  InLoop =>
    \A w \in WireIds :
      Answered(w) =>
        \/ Normalized[w] \in responded
        \/ /\ codex[w] = "closed"
           /\ \A k \in DOMAIN inbound : ~IsResolved(inbound[k], w)

StaleIsOver ==
  \A w \in WireIds :
    Resolution(Normalized[w], "server_request_resolved", TRUE) \in resolutionsLog =>
      /\ ~Answered(w)
      /\ pending[Normalized[w]] = NoWire
      /\ \A k \in DOMAIN inbound : ~IsApproval(inbound[k], w)
      /\ InLoop => codex[w] = "closed"

BlankRecords == loop \in {"starting", "handshake"} => resolutionsLog = {} /\ decisionsLog = <<>>

StaleInv == Remembered /\ StaleIsOver /\ BlankRecords

(***************************************************************************)
(* The end of the turn, where the App Server waits for its requests.       *)
(***************************************************************************)
TurnInv ==
  /\ \A k \in DOMAIN inbound : inbound[k].method = "turn/completed" => turn = "completed"
  /\ loop \in {"down", "starting", "handshake"} => turnCompleted = FALSE
  /\ TurnWaits =>
       /\ turn = "completed" => \A w \in WireIds : codex[w] # "open"
       /\ \A k \in DOMAIN inbound :
            inbound[k].method = "turn/completed" => k = Len(inbound)
       /\ turnCompleted => NothingPending
       /\ turnCompleted /\ InLoop => inbound = <<>> /\ turn = "completed"

-----------------------------------------------------------------------------
(***************************************************************************)
(* Lines in the pipe.                                                      *)
(***************************************************************************)

(* A line is written behind the others. *)
LEMMA Written ==
  ASSUME TypeInv, NEW m \in Message, Emit(m)
  PROVE  LET n == Len(inbound) + 1 IN
         /\ n \in Nat /\ n \in DOMAIN inbound' /\ inbound'[n] = m
         /\ \A k \in DOMAIN inbound' :
              \/ k \in DOMAIN inbound /\ inbound'[k] = inbound[k]
              \/ k = n /\ inbound'[k] = m
         /\ \A k \in DOMAIN inbound :
              k \in DOMAIN inbound' /\ inbound'[k] = inbound[k] /\ k \in Nat /\ n > k
<1>1. inbound \in Seq(Message) /\ inbound' = Append(inbound, m)
  BY DEF TypeInv, CodexTypeOK, PipeTypeOK, Emit
<1> QED
  BY <1>1

(* The first line is read. *)
LEMMA Taken ==
  ASSUME TypeInv, ReadLine
  PROVE  /\ Head(inbound) \in Message /\ Head(inbound) = inbound[1]
         /\ Len(inbound) \in Nat \ {0} /\ Len(inbound') = Len(inbound) - 1
         /\ DOMAIN inbound = 1..Len(inbound) /\ DOMAIN inbound' = 1..(Len(inbound) - 1)
         /\ \A k \in DOMAIN inbound' : k + 1 \in DOMAIN inbound /\ inbound'[k] = inbound[k + 1]
<1>1. inbound \in Seq(Message) /\ inbound # <<>> /\ inbound' = Tail(inbound)
  BY DEF TypeInv, CodexTypeOK, PipeTypeOK, ReadLine
<1> QED
  BY <1>1

LEMMA PipeInit == Init => PipeInv
  BY DEF Init, NoTurn, PipesEmpty, PipeInv, ClosedIsClosed, ResolvedOnce, AskedBeforeClosed

LEMMA PipeUnchanged ==
  ASSUME PipeInv, UNCHANGED <<inbound, codex, itemState>>
  PROVE  PipeInv'
  BY DEF PipeInv, ClosedIsClosed, ResolvedOnce, AskedBeforeClosed

LEMMA PipeClosed ==
  ASSUME CloseChild
  PROVE  PipeInv'
  BY DEF CloseChild, ResetTurn, ClosePipes, PipeInv, ClosedIsClosed, ResolvedOnce,
         AskedBeforeClosed

LEMMA PipeRead ==
  ASSUME TypeInv, PipeInv, ReadMessage
  PROVE  PipeInv'
<1>1. ReadLine /\ UNCHANGED <<codex, itemState>>
  BY DEF ReadMessage, turnVars
<1>2. ClosedIsClosed'
  BY <1>1, Taken DEF PipeInv, ClosedIsClosed
<1>3. ResolvedOnce'
  <2> SUFFICES ASSUME NEW w \in WireIds, NEW j \in DOMAIN inbound', NEW k \in DOMAIN inbound',
                      IsResolved(inbound'[j], w), IsResolved(inbound'[k], w)
               PROVE  j = k
    BY DEF ResolvedOnce
  <2>1. j + 1 = k + 1
    BY <1>1, Taken DEF PipeInv, ResolvedOnce
  <2> QED
    BY <1>1, <2>1, Taken
<1>4. AskedBeforeClosed'
  <2> SUFFICES ASSUME NEW w \in WireIds, NEW k \in DOMAIN inbound', IsApproval(inbound'[k], w)
               PROVE  /\ \/ codex'[w] = "open"
                         \/ \E j \in DOMAIN inbound' : j > k /\ Closes(inbound'[j], w)
                      /\ \A j \in DOMAIN inbound' : IsResolved(inbound'[j], w) => j > k
    BY DEF AskedBeforeClosed
  <2>1. /\ k + 1 \in DOMAIN inbound /\ inbound'[k] = inbound[k + 1] /\ k \in Nat \ {0}
        /\ IsApproval(inbound[k + 1], w)
    BY <1>1, Taken
  <2>2. \/ codex[w] = "open"
        \/ \E j \in DOMAIN inbound : j > k + 1 /\ Closes(inbound[j], w)
    BY <2>1 DEF PipeInv, AskedBeforeClosed
  <2>3. ASSUME NEW j \in DOMAIN inbound, j > k + 1, Closes(inbound[j], w)
        PROVE  j - 1 \in DOMAIN inbound' /\ j - 1 > k /\ Closes(inbound'[j - 1], w)
    <3>1. j - 1 \in DOMAIN inbound' /\ j - 1 > k
      BY <1>1, <2>1, <2>3, Taken
    <3>2. inbound'[j - 1] = inbound[(j - 1) + 1] /\ (j - 1) + 1 = j
      BY <1>1, <3>1, Taken
    <3> QED
      BY <2>3, <3>1, <3>2
  <2>4. ASSUME NEW j \in DOMAIN inbound', IsResolved(inbound'[j], w)
        PROVE  j > k
    <3>1. j + 1 \in DOMAIN inbound /\ IsResolved(inbound[j + 1], w) /\ j \in Nat
      BY <1>1, <2>4, Taken
    <3>2. j + 1 > k + 1
      BY <2>1, <3>1 DEF PipeInv, AskedBeforeClosed
    <3> QED
      BY <2>1, <3>1, <3>2
  <2> QED
    BY <1>1, <2>2, <2>3, <2>4
<1> QED
  BY <1>2, <1>3, <1>4 DEF PipeInv

(* A line that closes nothing and asks nothing. *)
LEMMA PipeWritten ==
  ASSUME TypeInv, PipeInv, NEW m \in Message, Emit(m), UNCHANGED codex,
         \A w \in WireIds : ~IsApproval(m, w) /\ ~IsResolved(m, w),
         \A i \in Items :
           ~IsCompleted(m, i) /\ (itemState[i] = "completed" <=> itemState'[i] = "completed")
  PROVE  PipeInv'
<1>1. /\ Len(inbound) \in Nat
      /\ \A k \in DOMAIN inbound' :
           \/ k \in DOMAIN inbound /\ inbound'[k] = inbound[k]
           \/ k = Len(inbound) + 1 /\ inbound'[k] = m
      /\ \A k \in DOMAIN inbound : k \in DOMAIN inbound' /\ inbound'[k] = inbound[k]
  BY Written
<1>2. ClosedIsClosed'
  BY <1>1, ItemAssumption DEF PipeInv, ClosedIsClosed
<1>3. ResolvedOnce'
  BY <1>1 DEF PipeInv, ResolvedOnce
<1>4. AskedBeforeClosed'
  BY <1>1 DEF PipeInv, AskedBeforeClosed
<1> QED
  BY <1>2, <1>3, <1>4 DEF PipeInv

(* A request: nothing was written of it before. *)
LEMMA PipeRequested ==
  ASSUME TypeInv, Known, PipeInv, NEW w \in WireIds, RequestApproval(w)
  PROVE  PipeInv'
<1> DEFINE m == [method |-> "requestApproval", wire |-> w]
           n == Len(inbound) + 1
<1>1. m \in Message /\ Emit(m) /\ UNCHANGED itemState
  BY DEF RequestApproval, Message, ApprovalMsg
<1>2. /\ n \in Nat
      /\ \A k \in DOMAIN inbound' :
           \/ k \in DOMAIN inbound /\ inbound'[k] = inbound[k]
           \/ k = n /\ inbound'[k] = m
      /\ \A k \in DOMAIN inbound : k \in DOMAIN inbound' /\ inbound'[k] = inbound[k]
  BY <1>1, Written
<1>3. /\ codex[w] = "idle" /\ codex'[w] = "open"
      /\ \A v \in WireIds : v # w => codex'[v] = codex[v]
      /\ itemState[ItemOf[w]] # "completed"
  BY DEF RequestApproval, TypeInv, CodexTypeOK
<1>4. \A v \in WireIds : ~IsResolved(m, v) /\ (IsApproval(m, v) => v = w)
  BY DEF IsResolved, IsApproval
<1>5. \A i \in Items : ~IsCompleted(m, i)
  BY DEF IsCompleted
<1>6. \A k \in DOMAIN inbound : ~IsApproval(inbound[k], w) /\ ~IsResolved(inbound[k], w)
  BY <1>3 DEF Known, UnreadUnknown, PipeInv, ClosedIsClosed
<1>7. ClosedIsClosed'
  BY <1>1, <1>2, <1>3, <1>4, <1>5, <1>6 DEF PipeInv, ClosedIsClosed
<1>8. ResolvedOnce'
  BY <1>2, <1>4 DEF PipeInv, ResolvedOnce
<1>9. AskedBeforeClosed'
  BY <1>2, <1>3, <1>4, <1>6 DEF PipeInv, AskedBeforeClosed
<1> QED
  BY <1>7, <1>8, <1>9 DEF PipeInv

(* An open request is closed and reported so. *)
LEMMA PipeResolved ==
  ASSUME TypeInv, PipeInv, NEW w \in WireIds, codex[w] = "open",
         codex' = [codex EXCEPT ![w] = "closed"],
         Emit([method |-> "serverRequest/resolved", wire |-> w]),
         UNCHANGED itemState
  PROVE  PipeInv'
<1> DEFINE m == [method |-> "serverRequest/resolved", wire |-> w]
           n == Len(inbound) + 1
<1>1. m \in Message
  BY DEF Message, ResolvedMsg
<1>2. /\ n \in Nat /\ n \in DOMAIN inbound' /\ inbound'[n] = m
      /\ \A k \in DOMAIN inbound' :
           \/ k \in DOMAIN inbound /\ inbound'[k] = inbound[k]
           \/ k = n /\ inbound'[k] = m
      /\ \A k \in DOMAIN inbound :
           k \in DOMAIN inbound' /\ inbound'[k] = inbound[k] /\ n > k
  BY <1>1, Written
<1>3. codex'[w] = "closed" /\ \A v \in WireIds : v # w => codex'[v] = codex[v]
  BY DEF TypeInv, CodexTypeOK
<1>4. \A v \in WireIds : ~IsApproval(m, v) /\ (IsResolved(m, v) <=> v = w)
  BY DEF IsResolved, IsApproval
<1>5. \A i \in Items : ~IsCompleted(m, i)
  BY DEF IsCompleted
<1>6. \A k \in DOMAIN inbound : ~IsResolved(inbound[k], w)
  BY DEF PipeInv, ClosedIsClosed
<1>7. ClosedIsClosed'
  BY <1>2, <1>3, <1>4, <1>5 DEF PipeInv, ClosedIsClosed
<1>8. ResolvedOnce'
  BY <1>2, <1>4, <1>6 DEF PipeInv, ResolvedOnce
<1>9. AskedBeforeClosed'
  <2> SUFFICES ASSUME NEW v \in WireIds, NEW k \in DOMAIN inbound', IsApproval(inbound'[k], v)
               PROVE  /\ \/ codex'[v] = "open"
                         \/ \E j \in DOMAIN inbound' : j > k /\ Closes(inbound'[j], v)
                      /\ \A j \in DOMAIN inbound' : IsResolved(inbound'[j], v) => j > k
    BY DEF AskedBeforeClosed
  <2>1. k \in DOMAIN inbound /\ IsApproval(inbound[k], v) /\ inbound'[k] = inbound[k] /\ n > k
    BY <1>2, <1>4
  <2>2. \A j \in DOMAIN inbound' : IsResolved(inbound'[j], v) => j > k
    BY <1>2, <2>1 DEF PipeInv, AskedBeforeClosed
  <2>3. CASE v = w
    BY <1>2, <1>4, <2>1, <2>2, <2>3 DEF Closes
  <2>4. CASE v # w
    BY <1>2, <1>3, <2>1, <2>2, <2>4 DEF PipeInv, AskedBeforeClosed
  <2> QED
    BY <2>3, <2>4
<1> QED
  BY <1>7, <1>8, <1>9 DEF PipeInv

(* An item is completed with the requests it has open. *)
LEMMA PipeCompleted ==
  ASSUME TypeInv, PipeInv, NEW i \in Items, CompleteItem(i)
  PROVE  PipeInv'
<1> DEFINE m == [method |-> "item/completed", item |-> i, status |-> "completed"]
           n == Len(inbound) + 1
<1>1. m \in Message /\ Emit(m)
  BY DEF CompleteItem, Message, CompletedMsg
<1>2. /\ n \in Nat /\ n \in DOMAIN inbound' /\ inbound'[n] = m
      /\ \A k \in DOMAIN inbound' :
           \/ k \in DOMAIN inbound /\ inbound'[k] = inbound[k]
           \/ k = n /\ inbound'[k] = m
      /\ \A k \in DOMAIN inbound :
           k \in DOMAIN inbound' /\ inbound'[k] = inbound[k] /\ n > k
  BY <1>1, Written
<1>3. /\ itemState'[i] = "completed"
      /\ \A j \in Items : j # i => itemState'[j] = itemState[j]
      /\ \A w \in WireIds : codex'[w] = IF codex[w] = "open" /\ ItemOf[w] = i
                                         THEN "closed" ELSE codex[w]
  BY DEF CompleteItem, TypeInv, CodexTypeOK
<1>4. \A v \in WireIds : ~IsApproval(m, v) /\ ~IsResolved(m, v)
  BY DEF IsResolved, IsApproval
<1>5. \A j \in Items : IsCompleted(m, j) <=> j = i
  BY DEF IsCompleted
<1>6. ClosedIsClosed'
  BY <1>2, <1>3, <1>4, <1>5, ItemAssumption DEF PipeInv, ClosedIsClosed
<1>7. ResolvedOnce'
  BY <1>2, <1>4 DEF PipeInv, ResolvedOnce
<1>8. AskedBeforeClosed'
  <2> SUFFICES ASSUME NEW v \in WireIds, NEW k \in DOMAIN inbound', IsApproval(inbound'[k], v)
               PROVE  /\ \/ codex'[v] = "open"
                         \/ \E j \in DOMAIN inbound' : j > k /\ Closes(inbound'[j], v)
                      /\ \A j \in DOMAIN inbound' : IsResolved(inbound'[j], v) => j > k
    BY DEF AskedBeforeClosed
  <2>1. k \in DOMAIN inbound /\ IsApproval(inbound[k], v) /\ inbound'[k] = inbound[k] /\ n > k
    BY <1>2, <1>4
  <2>2. \A j \in DOMAIN inbound' : IsResolved(inbound'[j], v) => j > k
    BY <1>2, <1>4, <2>1 DEF PipeInv, AskedBeforeClosed
  <2>3. CASE codex[v] = "open" /\ ItemOf[v] = i
    BY <1>2, <1>5, <2>1, <2>2, <2>3 DEF Closes
  <2>4. CASE ~(codex[v] = "open" /\ ItemOf[v] = i)
    BY <1>2, <1>3, <2>1, <2>2, <2>4 DEF PipeInv, AskedBeforeClosed
  <2> QED
    BY <2>3, <2>4
<1> QED
  BY <1>6, <1>7, <1>8 DEF PipeInv

LEMMA PipeCodexStep ==
  ASSUME TypeInv, Known, PipeInv, CodexStep
  PROVE  PipeInv'
<1>1. ASSUME NEW i \in Items, StartItem(i)
      PROVE  PipeInv'
  <2> DEFINE m == [method |-> "item/started", item |-> i]
  <2>1. m \in Message /\ Emit(m) /\ UNCHANGED codex
    BY <1>1 DEF StartItem, Message, StartedMsg
  <2>2. \A w \in WireIds : ~IsApproval(m, w) /\ ~IsResolved(m, w)
    BY DEF IsApproval, IsResolved
  <2>3. \A j \in Items :
           ~IsCompleted(m, j) /\ (itemState[j] = "completed" <=> itemState'[j] = "completed")
    BY <1>1 DEF IsCompleted, StartItem, TypeInv, CodexTypeOK
  <2> QED
    BY <2>1, <2>2, <2>3, PipeWritten
<1>2. ASSUME NEW i \in Items, ReportItem(i)
      PROVE  PipeInv'
  <2> DEFINE m == [method |-> "item/completed", item |-> i, status |-> "inProgress"]
  <2>1. m \in Message /\ Emit(m) /\ UNCHANGED codex
    BY <1>2 DEF ReportItem, Message, CompletedMsg
  <2>2. \A w \in WireIds : ~IsApproval(m, w) /\ ~IsResolved(m, w)
    BY DEF IsApproval, IsResolved
  <2>3. \A j \in Items :
           ~IsCompleted(m, j) /\ (itemState[j] = "completed" <=> itemState'[j] = "completed")
    BY <1>2 DEF IsCompleted, ReportItem, TypeInv, CodexTypeOK
  <2> QED
    BY <2>1, <2>2, <2>3, PipeWritten
<1>3. ASSUME NEW w \in WireIds, WithdrawRequest(w)
      PROVE  PipeInv'
  BY <1>3, PipeResolved DEF WithdrawRequest
<1>4. CASE TakeDecision
  <2>1. Head(outbound) \in Answer
    BY <1>4 DEF TakeDecision
  <2>2. Head(outbound).wire \in WireIds
    BY <2>1 DEF Answer
  <2> QED
    BY <1>4, <2>2, PipeResolved DEF TakeDecision
<1>5. CASE IgnoreDecision \/ Die
  BY <1>5, PipeUnchanged DEF IgnoreDecision, Die, turnVars
<1>6. CASE CompleteTurn
  <2> DEFINE m == [method |-> "turn/completed"]
  <2>1. m \in Message /\ Emit(m) /\ UNCHANGED <<codex, itemState>>
    BY <1>6 DEF CompleteTurn, Message, TurnMsg
  <2>2. \A w \in WireIds : ~IsApproval(m, w) /\ ~IsResolved(m, w)
    BY DEF IsApproval, IsResolved
  <2>3. \A j \in Items :
           ~IsCompleted(m, j) /\ (itemState[j] = "completed" <=> itemState'[j] = "completed")
    BY <2>1 DEF IsCompleted
  <2> QED
    BY <2>1, <2>2, <2>3, PipeWritten
<1> QED
  BY <1>1, <1>2, <1>3, <1>4, <1>5, <1>6, PipeRequested, PipeCompleted DEF CodexStep

LEMMA PipeStep ==
  ASSUME TypeInv, Known, PipeInv, [Next]_vars
  PROVE  PipeInv'
<1>1. CASE Start \/ WriteStarting \/ Handshake
  BY <1>1, PipeUnchanged DEF Start, WriteStarting, Handshake, codexVars, turnVars, pipeVars
<1>2. CASE HandshakeFails \/ Timeout \/ WriteFinal \/ WriteError \/ Kill \/ AnswerFails
             \/ PublishAndFinish
  BY <1>2, PipeClosed DEF HandshakeFails, Timeout, WriteFinal, WriteError, Kill, EndProcess,
                          AnswerFails, PublishAndFinish
<1>3. CASE LoadResponses \/ AnswerQueued \/ RecordDecision \/ RejectQueued
  BY <1>3, PipeUnchanged
     DEF LoadResponses, AnswerQueued, SendLine, RecordDecision, RejectQueued, codexVars,
         turnVars, pipeVars
<1>4. CASE DrainDone \/ ReadTimesOut \/ PublishAndContinue
  BY <1>4, PipeUnchanged
     DEF DrainDone, ReadTimesOut, ReadNothing, PublishAndContinue, codexVars, turnVars, pipeVars
<1>5. CASE ReadMessage
  BY <1>5, PipeRead
<1>6. ASSUME NEW c \in Clients, Ask(c) \/ Enqueue(c)
      PROVE  PipeInv'
  BY <1>6, PipeUnchanged
     DEF Ask, Enqueue, CheckStatus, CheckPending, CheckQueue, AppendResponse, ClientUnchanged,
         codexVars, turnVars, pipeVars
<1>7. CASE Environment
  BY <1>7, PipeCodexStep DEF Environment
<1>8. CASE UNCHANGED vars
  BY <1>8, PipeUnchanged DEF vars, codexVars, turnVars, pipeVars
<1> QED
  BY <1>1, <1>2, <1>3, <1>4, <1>5, <1>6, <1>7, <1>8 DEF Next, ServiceStep

-----------------------------------------------------------------------------
(***************************************************************************)
(* What a message does to the pending approvals: it opens its own, closes  *)
(* those it closes, and leaves the others.                                 *)
(***************************************************************************)
LEMMA MessageShapes ==
  ASSUME NEW m \in Message
  PROVE  /\ \A w \in WireIds :
              /\ m = [method |-> "requestApproval", wire |-> w] <=> IsApproval(m, w)
              /\ m = [method |-> "serverRequest/resolved", wire |-> w] <=> IsResolved(m, w)
         /\ \A i \in Items :
              m = [method |-> "item/completed", item |-> i, status |-> "completed"]
                <=> IsCompleted(m, i)
<1> USE DEF IsApproval, IsResolved, IsCompleted
<1>1. CASE m \in ApprovalMsg \cup ResolvedMsg
  BY <1>1 DEF ApprovalMsg, ResolvedMsg
<1>2. CASE m \in StartedMsg \cup CompletedMsg \cup TurnMsg
  BY <1>2 DEF StartedMsg, CompletedMsg, TurnMsg
<1> QED
  BY <1>1, <1>2 DEF Message

LEMMA PendingAfter ==
  ASSUME TypeInv, Known, NEW m \in Message, HandleMessage(m), NEW r \in RequestIds
  PROVE  \/ pending'[r] = pending[r] /\ ~(pending[r] # NoWire /\ Closes(m, pending[r]))
         \/ \E w \in WireIds : IsApproval(m, w) /\ Normalized[w] = r /\ pending'[r] = w
         \/ pending[r] # NoWire /\ Closes(m, pending[r]) /\ pending'[r] = NoWire
<1> USE NormalizedAssumption, NoWireAssumption, ItemAssumption
    DEF IsApproval, IsResolved, IsCompleted, Closes
<1>0. /\ pending \in [RequestIds -> WireIds \cup {NoWire}]
      /\ pending[r] # NoWire => Normalized[pending[r]] = r
  BY DEF TypeInv, BrokerTypeOK, Known, PendingUnanswered
<1>1. CASE HandleApproval(m)
  <2>1. m.wire \in WireIds
    BY <1>1 DEF HandleApproval, Message, ApprovalMsg, ResolvedMsg, StartedMsg, CompletedMsg,
                TurnMsg
  <2> QED
    BY <1>0, <1>1, <2>1 DEF HandleApproval
<1>2. CASE HandleItemStarted(m) \/ HandleTurnCompleted(m)
  BY <1>2 DEF HandleItemStarted, HandleTurnCompleted, brokerVars
<1>3. CASE HandleItemCompleted(m)
  <2>1. m.method = "item/completed" /\ m.item \in Items /\ m.status \in {"inProgress", "completed"}
    BY <1>3 DEF HandleItemCompleted, Message, ApprovalMsg, ResolvedMsg, StartedMsg,
                CompletedMsg, TurnMsg
  <2>2. CASE m.status = "inProgress"
    BY <1>3, <2>1, <2>2 DEF HandleItemCompleted
  <2>3. CASE m.status = "completed"
    <3>1. pending'[r] = IF pending[r] # NoWire /\ ItemOf[pending[r]] = m.item
                          THEN NoWire ELSE pending[r]
      BY <1>3, <2>3 DEF HandleItemCompleted, CleanupForItem, PendingOf, PendingIds, PendingIn
    <3> QED
      BY <2>1, <2>3, <3>1
  <2> QED
    BY <2>1, <2>2, <2>3
<1>4. CASE HandleResolved(m)
  <2>1. m.method = "serverRequest/resolved" /\ m.wire \in WireIds
    BY <1>4 DEF HandleResolved, Message, ApprovalMsg, ResolvedMsg, StartedMsg, CompletedMsg,
                TurnMsg
  <2>2. pending' = [pending EXCEPT ![Normalized[m.wire]] = NoWire]
    BY <1>4 DEF HandleResolved
  <2>3. CASE r = Normalized[m.wire]
    BY <1>0, <2>1, <2>2, <2>3
  <2>4. CASE r # Normalized[m.wire]
    BY <1>0, <2>1, <2>2, <2>4
  <2> QED
    BY <2>3, <2>4
<1> QED
  BY <1>1, <1>2, <1>3, <1>4 DEF HandleMessage

(* A request that is read is pending. *)
LEMMA PendingOpened ==
  ASSUME TypeInv, NEW m \in Message, HandleMessage(m), NEW w \in WireIds, IsApproval(m, w)
  PROVE  pending'[Normalized[w]] = w
  BY HandledPending, NormalizedAssumption DEF TypeInv, BrokerTypeOK, IsApproval

-----------------------------------------------------------------------------
(***************************************************************************)
(* What Codex waits on and what the broker holds.                          *)
(***************************************************************************)
Kept ==
  InLoop =>
    \A w \in WireIds :
      codex[w] = "open" =>
        \/ \E k \in DOMAIN inbound : IsApproval(inbound[k], w)
        \/ pending[Normalized[w]] = w
        \/ \E k \in DOMAIN outbound : outbound[k].wire = w

NoGhost ==
  InLoop =>
    \A r \in RequestIds :
      pending[r] # NoWire =>
        \/ codex[pending[r]] = "open"
        \/ \E k \in DOMAIN inbound : Closes(inbound[k], pending[r])

Agreed == Kept /\ NoGhost

LEMMA AgreedUnchanged ==
  ASSUME Agreed, UNCHANGED <<pending, codex, inbound, outbound>>, InLoop' => InLoop
  PROVE  Agreed'
  BY DEF Agreed, Kept, NoGhost

(* A decision on its way in place of a pending request. *)
LEMMA AgreedAnswered ==
  ASSUME TypeInv, Agreed, NEW y \in Response, Answers(y)
  PROVE  Agreed'
<1> DEFINE r == y.id
           x == [wire |-> pending[r], decision |-> y.decision]
<1>1. /\ InLoop /\ UNCHANGED <<codex, inbound>>
      /\ pending' = [pending EXCEPT ![r] = NoWire]
      /\ outbound' = Append(outbound, x)
  BY DEF Answers, SendDecision, SendLine, turnVars
<1>2. /\ pending \in [RequestIds -> WireIds \cup {NoWire}]
      /\ outbound \in Seq(Answer)
  BY DEF TypeInv, BrokerTypeOK, CodexTypeOK, PipeTypeOK
<1>3. /\ Len(outbound) + 1 \in DOMAIN outbound' /\ outbound'[Len(outbound) + 1] = x
      /\ \A k \in DOMAIN outbound : k \in DOMAIN outbound' /\ outbound'[k] = outbound[k]
  BY <1>1, <1>2
<1>4. Kept'
  <2> SUFFICES ASSUME NEW w \in WireIds, codex[w] = "open"
               PROVE  \/ \E k \in DOMAIN inbound : IsApproval(inbound[k], w)
                      \/ pending'[Normalized[w]] = w
                      \/ \E k \in DOMAIN outbound' : outbound'[k].wire = w
    BY <1>1 DEF Kept
  <2>1. \/ \E k \in DOMAIN inbound : IsApproval(inbound[k], w)
        \/ pending[Normalized[w]] = w
        \/ \E k \in DOMAIN outbound : outbound[k].wire = w
    BY <1>1 DEF Agreed, Kept
  <2>2. CASE pending[Normalized[w]] = w /\ Normalized[w] = r
    BY <1>3, <2>2
  <2>3. CASE pending[Normalized[w]] = w /\ Normalized[w] # r
    BY <1>1, <1>2, <2>3, NormalizedAssumption
  <2> QED
    BY <1>3, <2>1, <2>2, <2>3
<1>5. NoGhost'
  BY <1>1, <1>2, NoWireAssumption DEF Agreed, NoGhost
<1> QED
  BY <1>4, <1>5 DEF Agreed

(* A message that is read closes what Codex has closed. *)
LEMMA AgreedRead ==
  ASSUME TypeInv, Known, PipeInv, Agreed, ReadMessage
  PROVE  Agreed'
<1> DEFINE m == Head(inbound)
<1> USE NormalizedAssumption, NoWireAssumption, ItemAssumption
<1>1. ReadLine /\ HandleMessage(m) /\ UNCHANGED <<codex, outbound>> /\ InLoop
  BY DEF ReadMessage, ReadLine, turnVars, InLoop, LoopSteps
<1>2. /\ m \in Message /\ m = inbound[1] /\ 1 \in DOMAIN inbound
      /\ \A k \in DOMAIN inbound : k = 1 \/ (k - 1 \in DOMAIN inbound' /\ inbound'[k - 1] = inbound[k])
  BY <1>1, Taken
<1>3. Kept'
  <2> SUFFICES ASSUME NEW w \in WireIds, codex[w] = "open"
               PROVE  \/ \E k \in DOMAIN inbound' : IsApproval(inbound'[k], w)
                      \/ pending'[Normalized[w]] = w
                      \/ \E k \in DOMAIN outbound : outbound[k].wire = w
    BY <1>1 DEF Kept
  <2>1. ~Closes(m, w)
    BY <1>2 DEF PipeInv, ClosedIsClosed, Closes
  <2>2. CASE \E k \in DOMAIN inbound : IsApproval(inbound[k], w)
    BY <1>1, <1>2, <2>2, PendingOpened
  <2>3. CASE pending[Normalized[w]] = w
    <3>1. \/ pending'[Normalized[w]] = w
          \/ \E v \in WireIds : Normalized[v] = Normalized[w] /\ pending'[Normalized[w]] = v
      BY <1>1, <1>2, <2>1, <2>3, PendingAfter
    <3> QED
      BY <3>1
  <2> QED
    BY <1>1, <2>2, <2>3 DEF Agreed, Kept
<1>4. NoGhost'
  <2> SUFFICES ASSUME NEW r \in RequestIds, pending'[r] # NoWire
               PROVE  \/ codex[pending'[r]] = "open"
                      \/ \E k \in DOMAIN inbound' : Closes(inbound'[k], pending'[r])
    BY <1>1 DEF NoGhost
  <2>1. CASE pending'[r] = pending[r] /\ ~Closes(m, pending[r])
    <3>1. \/ codex[pending[r]] = "open"
          \/ \E k \in DOMAIN inbound : Closes(inbound[k], pending[r])
      BY <1>1, <2>1 DEF Agreed, NoGhost
    <3> QED
      BY <1>2, <2>1, <3>1
  <2>2. CASE \E w \in WireIds : IsApproval(m, w) /\ pending'[r] = w
    <3>1. PICK w \in WireIds : IsApproval(m, w) /\ pending'[r] = w
      BY <2>2
    <3>2. \/ codex[w] = "open"
          \/ \E j \in DOMAIN inbound : j > 1 /\ Closes(inbound[j], w)
      BY <1>2, <3>1 DEF PipeInv, AskedBeforeClosed
    <3> QED
      BY <1>2, <3>1, <3>2
  <2> QED
    BY <1>1, <1>2, <2>1, <2>2, PendingAfter
<1> QED
  BY <1>3, <1>4 DEF Agreed

(* The App Server opens and closes requests, and says so. *)
LEMMA AgreedCodex ==
  ASSUME TypeInv, Known, Agreed, CodexStep, UNCHANGED pending, InLoop' => InLoop
  PROVE  Agreed'
<1> USE ItemAssumption, NoWireAssumption
<1>1. /\ outbound \in Seq(Answer) /\ codex \in [WireIds -> {"idle", "open", "closed"}]
      /\ pending \in [RequestIds -> WireIds \cup {NoWire}]
  BY DEF TypeInv, BrokerTypeOK, CodexTypeOK, PipeTypeOK
<1>2. ASSUME \A k \in DOMAIN inbound : k \in DOMAIN inbound' /\ inbound'[k] = inbound[k],
             \A w \in WireIds :
               \/ codex'[w] = codex[w]
               \/ codex[w] = "idle" /\ \E k \in DOMAIN inbound' : IsApproval(inbound'[k], w)
               \/ codex'[w] = "closed" /\ \E k \in DOMAIN inbound' : Closes(inbound'[k], w),
             \A w \in WireIds : \A k \in DOMAIN outbound :
               codex'[w] = "open" /\ outbound[k].wire = w =>
                 \E j \in DOMAIN outbound' : outbound'[j].wire = w
      PROVE  Agreed'
  <2>1. Kept'
    BY <1>2 DEF Agreed, Kept
  <2>2. NoGhost'
    <3> SUFFICES ASSUME InLoop, NEW r \in RequestIds, pending[r] # NoWire
                 PROVE  \/ codex'[pending[r]] = "open"
                        \/ \E k \in DOMAIN inbound' : Closes(inbound'[k], pending[r])
      BY DEF NoGhost
    <3>1. pending[r] \in WireIds /\ codex[pending[r]] # "idle"
      BY <1>1 DEF Known, PendingUnanswered
    <3>2. \/ codex[pending[r]] = "open"
          \/ \E k \in DOMAIN inbound : Closes(inbound[k], pending[r])
      BY DEF Agreed, NoGhost
    <3> QED
      BY <1>2, <3>1, <3>2
  <2> QED
    BY <2>1, <2>2 DEF Agreed
<1>3. ASSUME NEW m \in Message, Emit(m)
      PROVE  /\ \A k \in DOMAIN inbound : k \in DOMAIN inbound' /\ inbound'[k] = inbound[k]
             /\ \E k \in DOMAIN inbound' : inbound'[k] = m
  BY <1>3, Written
<1>4. ASSUME NEW i \in Items, StartItem(i) \/ ReportItem(i)
      PROVE  Agreed'
  <2>1. UNCHANGED <<codex, outbound>> /\ \E m \in Message : Emit(m)
    BY <1>4 DEF StartItem, ReportItem, Message, StartedMsg, CompletedMsg
  <2> QED
    BY <1>2, <1>3, <2>1
<1>5. ASSUME NEW i \in Items, CompleteItem(i)
      PROVE  Agreed'
  <2> DEFINE m == [method |-> "item/completed", item |-> i, status |-> "completed"]
  <2>1. m \in Message /\ Emit(m) /\ UNCHANGED outbound
    BY <1>5 DEF CompleteItem, Message, CompletedMsg
  <2>2. \A w \in WireIds : codex'[w] = codex[w] \/ (codex'[w] = "closed" /\ ItemOf[w] = i)
    BY <1>5 DEF CompleteItem
  <2>3. IsCompleted(m, i)
    BY DEF IsCompleted
  <2>4. \E k \in DOMAIN inbound' : IsCompleted(inbound'[k], i)
    BY <1>3, <2>1, <2>3
  <2> QED
    BY <1>2, <1>3, <2>1, <2>2, <2>4 DEF Closes
<1>6. ASSUME NEW w \in WireIds, RequestApproval(w)
      PROVE  Agreed'
  <2> DEFINE m == [method |-> "requestApproval", wire |-> w]
  <2>1. m \in Message /\ Emit(m) /\ UNCHANGED outbound
    BY <1>6 DEF RequestApproval, Message, ApprovalMsg
  <2>2. codex[w] = "idle" /\ \A v \in WireIds : codex'[v] = codex[v] \/ v = w
    BY <1>1, <1>6 DEF RequestApproval
  <2>3. IsApproval(m, w)
    BY DEF IsApproval
  <2>4. \E k \in DOMAIN inbound' : IsApproval(inbound'[k], w)
    BY <1>3, <2>1, <2>3
  <2> QED
    BY <1>2, <1>3, <2>1, <2>2, <2>4
<1>7. ASSUME NEW w \in WireIds,
             Emit([method |-> "serverRequest/resolved", wire |-> w]),
             codex' = [codex EXCEPT ![w] = "closed"],
             \A v \in WireIds : \A k \in DOMAIN outbound :
               v # w /\ outbound[k].wire = v =>
                 \E j \in DOMAIN outbound' : outbound'[j].wire = v
      PROVE  Agreed'
  <2> DEFINE m == [method |-> "serverRequest/resolved", wire |-> w]
  <2>1. m \in Message /\ Emit(m)
    BY <1>7 DEF Message, ResolvedMsg
  <2>2. codex'[w] = "closed" /\ \A v \in WireIds : codex'[v] = codex[v] \/ v = w
    BY <1>1, <1>7
  <2>3. IsResolved(m, w)
    BY DEF IsResolved
  <2>4. \E k \in DOMAIN inbound' : IsResolved(inbound'[k], w)
    BY <1>3, <2>1, <2>3
  <2> QED
    BY <1>2, <1>3, <1>7, <2>1, <2>2, <2>4 DEF Closes
<1>8. ASSUME NEW w \in WireIds, WithdrawRequest(w)
      PROVE  Agreed'
  BY <1>7, <1>8 DEF WithdrawRequest
<1>9. ASSUME outbound # <<>>, outbound' = Tail(outbound)
      PROVE  \A v \in WireIds : \A k \in DOMAIN outbound :
               v # Head(outbound).wire /\ outbound[k].wire = v =>
                 \E j \in DOMAIN outbound' : outbound'[j].wire = v
  <2>1. \A k \in DOMAIN outbound :
          k = 1 \/ (k - 1 \in DOMAIN outbound' /\ outbound'[k - 1] = outbound[k])
    BY <1>1, <1>9
  <2>2. Head(outbound) = outbound[1]
    BY <1>1, <1>9
  <2> QED
    BY <2>1, <2>2
<1>10. CASE TakeDecision
  <2>1. Head(outbound) \in Answer /\ outbound # <<>> /\ outbound' = Tail(outbound)
    BY <1>10 DEF TakeDecision
  <2>2. Head(outbound).wire \in WireIds
    BY <2>1 DEF Answer
  <2> QED
    BY <1>7, <1>9, <1>10, <2>1, <2>2 DEF TakeDecision
<1>11. CASE IgnoreDecision
  <2>1. /\ codex[Head(outbound).wire] # "open"
        /\ outbound # <<>> /\ outbound' = Tail(outbound)
        /\ UNCHANGED <<codex, inbound>>
    BY <1>11 DEF IgnoreDecision, turnVars
  <2> QED
    BY <1>2, <1>9, <2>1
<1>12. CASE CompleteTurn
  <2>1. [method |-> "turn/completed"] \in Message
    BY DEF Message, TurnMsg
  <2> QED
    BY <1>2, <1>3, <1>12, <2>1 DEF CompleteTurn
<1>13. CASE Die
  BY <1>13, AgreedUnchanged DEF Die, turnVars
<1> QED
  BY <1>4, <1>5, <1>6, <1>8, <1>10, <1>11, <1>12, <1>13 DEF CodexStep

LEMMA AgreedStep ==
  ASSUME TypeInv, Phases, Known, PipeInv, Agreed, [Next]_vars
  PROVE  Agreed'
<1> USE DEF InLoop, LoopSteps
<1>1. CASE Start \/ WriteStarting \/ HandshakeFails \/ Timeout
  BY <1>1 DEF Start, WriteStarting, HandshakeFails, Timeout, Agreed, Kept, NoGhost
<1>2. CASE WriteFinal \/ WriteError \/ Kill \/ AnswerFails \/ PublishAndFinish
  BY <1>2 DEF WriteFinal, WriteError, Kill, EndProcess, AnswerFails, PublishAndFinish,
              Agreed, Kept, NoGhost
<1>3. CASE Handshake
  BY <1>3 DEF Handshake, Phases, NoChild, NothingPending, brokerVars, Agreed, Kept, NoGhost
<1>4. CASE LoadResponses \/ RecordDecision \/ RejectQueued
  BY <1>4, AgreedUnchanged
     DEF LoadResponses, RecordDecision, RejectQueued, brokerVars, codexVars, turnVars, pipeVars
<1>5. CASE DrainDone \/ ReadTimesOut \/ PublishAndContinue
  BY <1>5, AgreedUnchanged
     DEF DrainDone, ReadTimesOut, ReadNothing, PublishAndContinue, brokerVars, codexVars,
         turnVars, pipeVars
<1>6. CASE AnswerQueued
  BY <1>6, QueuedAnswers, AgreedAnswered
<1>7. CASE ReadMessage
  BY <1>7, AgreedRead
<1>8. ASSUME NEW c \in Clients, Ask(c) \/ Enqueue(c)
      PROVE  Agreed'
  BY <1>8, AgreedUnchanged
     DEF Ask, Enqueue, CheckStatus, CheckPending, CheckQueue, AppendResponse, ClientUnchanged,
         brokerVars, codexVars, turnVars, pipeVars, serviceVars
<1>9. CASE Environment
  BY <1>9, AgreedCodex DEF Environment, brokerVars, serviceVars
<1>10. CASE UNCHANGED vars
  BY <1>10, AgreedUnchanged DEF vars, brokerVars, codexVars, turnVars, pipeVars, serviceVars
<1> QED
  BY <1>1, <1>2, <1>3, <1>4, <1>5, <1>6, <1>7, <1>8, <1>9, <1>10 DEF Next, ServiceStep

(* What the broker and Codex agree on, at every moment. *)
AgreeInv == IInv /\ PipeInv /\ Agreed

LEMMA AgreeInductive == Spec => []AgreeInv
<1>1. Init => Agreed
  BY DEF Init, InLoop, LoopSteps, Agreed, Kept, NoGhost
<1>2. IInv /\ PipeInv /\ Agreed /\ [Next]_vars => PipeInv' /\ Agreed'
  BY PipeStep, AgreedStep DEF IInv
<1> QED
  BY <1>1, <1>2, PipeInit, Inductive, PTL DEF Spec, AgreeInv

(* In terms of the messages themselves. *)
LEMMA AgreedKeeps ==
  ASSUME TypeInv, Agreed
  PROVE  NoLostApproval /\ NoGhostApproval
<1>1. \A k \in DOMAIN inbound : inbound[k] \in Message
  BY DEF TypeInv, CodexTypeOK, PipeTypeOK
<1>2. NoLostApproval
  BY <1>1, MessageShapes DEF Agreed, Kept, NoLostApproval, OpenRequests, OnItsWay
<1>3. NoGhostApproval
  <2> SUFFICES ASSUME InLoop, NEW r \in PendingIds
               PROVE  codex[pending[r]] = "open" \/ Closing(pending[r])
    BY DEF NoGhostApproval
  <2>1. pending[r] \in WireIds /\ ItemOf[pending[r]] \in Items
    BY ItemAssumption DEF TypeInv, BrokerTypeOK, PendingIds, PendingIn
  <2>2. \/ codex[pending[r]] = "open"
        \/ \E k \in DOMAIN inbound : Closes(inbound[k], pending[r])
    BY DEF Agreed, NoGhost, PendingIds, PendingIn
  <2> QED
    BY <1>1, <2>1, <2>2, MessageShapes DEF Closing, Closes
<1> QED
  BY <1>2, <1>3

(***************************************************************************)
(* While the loop runs, no request Codex waits on is forgotten: it is      *)
(* still to be read, pending, or its answer is on the way back.            *)
(***************************************************************************)
THEOREM ApprovalsKept == Spec => []NoLostApproval
<1>1. AgreeInv => NoLostApproval
  BY AgreedKeeps DEF AgreeInv, IInv
<1> QED
  BY <1>1, AgreeInductive, PTL

(***************************************************************************)
(* While the loop runs, what is pending is a request Codex waits on, or    *)
(* one whose closing is on its way.                                        *)
(***************************************************************************)
THEOREM NothingGhostly == Spec => []NoGhostApproval
<1>1. AgreeInv => NoGhostApproval
  BY AgreedKeeps DEF AgreeInv, IInv
<1> QED
  BY <1>1, AgreeInductive, PTL

-----------------------------------------------------------------------------
(***************************************************************************)
(* What any step of the App Server can do: it writes at most one line, it  *)
(* reports as resolved what was open, asks for what it had not asked, and  *)
(* never opens again what it has closed.                                   *)
(***************************************************************************)
Writes(m) ==
  /\ Emit(m)
  /\ \A w \in WireIds :
       /\ IsResolved(m, w) => codex[w] = "open"
       /\ IsApproval(m, w) => codex[w] = "idle"

LEMMA CodexWrites ==
  ASSUME TypeInv, CodexStep
  PROVE  /\ running
         /\ \A w \in WireIds : codex[w] = "closed" => codex'[w] = "closed"
         /\ UNCHANGED inbound \/ \E m \in Message : Writes(m)
<1> USE DEF Writes, IsResolved, IsApproval
<1>1. ASSUME NEW i \in Items, StartItem(i)
      PROVE  /\ running /\ UNCHANGED codex
             /\ \E m \in Message : Writes(m)
  <2>1. [method |-> "item/started", item |-> i] \in Message
    BY DEF Message, StartedMsg
  <2> QED
    BY <1>1, <2>1 DEF StartItem
<1>2. ASSUME NEW i \in Items, ReportItem(i)
      PROVE  /\ running /\ UNCHANGED codex
             /\ \E m \in Message : Writes(m)
  <2>1. [method |-> "item/completed", item |-> i, status |-> "inProgress"] \in Message
    BY DEF Message, CompletedMsg
  <2> QED
    BY <1>2, <2>1 DEF ReportItem
<1>3. ASSUME NEW i \in Items, CompleteItem(i)
      PROVE  /\ running
             /\ \A w \in WireIds : codex[w] = "closed" => codex'[w] = "closed"
             /\ \E m \in Message : Writes(m)
  <2>1. [method |-> "item/completed", item |-> i, status |-> "completed"] \in Message
    BY DEF Message, CompletedMsg
  <2> QED
    BY <1>3, <2>1 DEF CompleteItem
<1>4. ASSUME NEW w \in WireIds, RequestApproval(w)
      PROVE  /\ running
             /\ \A v \in WireIds : codex[v] = "closed" => codex'[v] = "closed"
             /\ \E m \in Message : Writes(m)
  <2>1. [method |-> "requestApproval", wire |-> w] \in Message
    BY DEF Message, ApprovalMsg
  <2> QED
    BY <1>4, <2>1 DEF RequestApproval, TypeInv, CodexTypeOK
<1>5. ASSUME NEW w \in WireIds, codex[w] = "open",
             codex' = [codex EXCEPT ![w] = "closed"],
             Emit([method |-> "serverRequest/resolved", wire |-> w])
      PROVE  /\ \A v \in WireIds : codex[v] = "closed" => codex'[v] = "closed"
             /\ \E m \in Message : Writes(m)
  <2>1. [method |-> "serverRequest/resolved", wire |-> w] \in Message
    BY DEF Message, ResolvedMsg
  <2> QED
    BY <1>5, <2>1 DEF TypeInv, CodexTypeOK
<1>6. ASSUME NEW w \in WireIds, WithdrawRequest(w)
      PROVE  /\ running
             /\ \A v \in WireIds : codex[v] = "closed" => codex'[v] = "closed"
             /\ \E m \in Message : Writes(m)
  BY <1>5, <1>6 DEF WithdrawRequest
<1>7. CASE TakeDecision
  <2>1. Head(outbound).wire \in WireIds
    BY <1>7 DEF TakeDecision, Answer
  <2> QED
    BY <1>5, <1>7, <2>1 DEF TakeDecision
<1>8. CASE IgnoreDecision \/ Die
  BY <1>8 DEF IgnoreDecision, Die, turnVars
<1>9. CASE CompleteTurn
  <2>1. [method |-> "turn/completed"] \in Message
    BY DEF Message, TurnMsg
  <2> QED
    BY <1>9, <2>1 DEF CompleteTurn
<1> QED
  BY <1>1, <1>2, <1>3, <1>4, <1>6, <1>7, <1>8, <1>9 DEF CodexStep

-----------------------------------------------------------------------------
(***************************************************************************)
(* Confirmations.                                                          *)
(***************************************************************************)
StaleRecord(w) == Resolution(Normalized[w], "server_request_resolved", TRUE)

(* Nothing of what was answered, asked or resolved is different. *)
LEMMA StaleUnchanged ==
  ASSUME StaleInv, UNCHANGED <<sent, responded, codex, inbound>>, InLoop' => InLoop,
         \A w \in WireIds :
           StaleRecord(w) \in resolutionsLog' => StaleRecord(w) \in resolutionsLog,
         \A r \in RequestIds : pending'[r] = pending[r] \/ pending'[r] = NoWire,
         loop' \notin {"starting", "handshake"}
           \/ UNCHANGED <<loop, resolutionsLog, decisionsLog>>
  PROVE  StaleInv'
<1>1. \A w : Answered(w)' <=> Answered(w)
  BY DEF Answered
<1>2. Remembered'
  BY <1>1 DEF StaleInv, Remembered
<1>3. StaleIsOver'
  BY <1>1, NormalizedAssumption DEF StaleInv, StaleIsOver, StaleRecord
<1>4. BlankRecords'
  BY DEF StaleInv, BlankRecords
<1> QED
  BY <1>2, <1>3, <1>4 DEF StaleInv

(* The loop ends. *)
LEMMA StaleClosed ==
  ASSUME StaleInv, ~InLoop', loop' \notin {"starting", "handshake"},
         inbound' = <<>>, UNCHANGED <<sent, resolutionsLog>>,
         \A r \in RequestIds : pending'[r] = pending[r] \/ pending'[r] = NoWire
  PROVE  StaleInv'
<1>1. \A w : Answered(w)' <=> Answered(w)
  BY DEF Answered
<1>2. Remembered' /\ BlankRecords'
  BY DEF StaleInv, Remembered, BlankRecords
<1>3. ASSUME NEW w \in WireIds, StaleRecord(w) \in resolutionsLog'
      PROVE  /\ ~Answered(w)'
             /\ pending'[Normalized[w]] = NoWire
             /\ \A k \in DOMAIN inbound' : ~IsApproval(inbound'[k], w)
  <2>1. ~Answered(w) /\ pending[Normalized[w]] = NoWire
    BY <1>3 DEF StaleInv, StaleIsOver, StaleRecord
  <2> QED
    BY <1>1, <2>1, NormalizedAssumption
<1> QED
  BY <1>2, <1>3 DEF StaleInv, StaleIsOver, StaleRecord

LEMMA StaleAnswered ==
  ASSUME TypeInv, Known, StaleInv, NEW y \in Response, Answers(y)
  PROVE  StaleInv'
<1> DEFINE r == y.id
           x == [wire |-> pending[r], response |-> y]
<1> USE NormalizedAssumption, NoWireAssumption
<1>1. /\ InLoop /\ InLoop'
      /\ pending[r] # NoWire
      /\ pending' = [pending EXCEPT ![r] = NoWire]
      /\ responded' = responded \cup {r}
      /\ sent' = Append(sent, x)
      /\ UNCHANGED <<codex, inbound, resolutionsLog>>
  BY DEF Answers, SendDecision, SendLine, turnVars, auditVars
<1>2. /\ pending \in [RequestIds -> WireIds \cup {NoWire}]
      /\ sent \in Seq([wire : WireIds, response : Response])
  BY DEF TypeInv, BrokerTypeOK, AuditTypeOK
<1>3. r \in RequestIds
  BY DEF Response
<1>4. pending[r] \in WireIds /\ Normalized[pending[r]] = r
  BY <1>1, <1>2, <1>3 DEF Known, PendingUnanswered
<1>5. \A w \in WireIds : Answered(w)' => Answered(w) \/ w = pending[r]
  BY <1>1, <1>2, <1>3, <1>4 DEF Answered
<1>6. Remembered'
  BY <1>1, <1>4, <1>5 DEF StaleInv, Remembered
<1>7. StaleIsOver'
  BY <1>1, <1>2, <1>4, <1>5 DEF StaleInv, StaleIsOver, InLoop
<1>8. BlankRecords'
  BY <1>1 DEF BlankRecords, InLoop, LoopSteps
<1> QED
  BY <1>6, <1>7, <1>8 DEF StaleInv

(* A resolution that is read is the only one of its request. *)
LEMMA StaleRead ==
  ASSUME TypeInv, Known, PipeInv, StaleInv, ReadMessage
  PROVE  StaleInv'
<1> DEFINE m == Head(inbound)
<1> USE NormalizedAssumption, NoWireAssumption
<1>1. /\ ReadLine /\ HandleMessage(m) /\ UNCHANGED <<codex, sent>> /\ InLoop
      /\ resolutionsLog' = resolutionsLog \cup ResolutionsOf(m)
      /\ loop' = "publish"
  BY DEF ReadMessage, turnVars, InLoop, LoopSteps
<1>2. /\ m \in Message /\ m = inbound[1] /\ 1 \in DOMAIN inbound
      /\ \A k \in DOMAIN inbound' :
           k + 1 \in DOMAIN inbound /\ inbound'[k] = inbound[k + 1] /\ k \in Nat \ {0}
  BY <1>1, Taken
<1>3. \A w : Answered(w)' <=> Answered(w)
  BY <1>1 DEF Answered
<1>4. \A w \in WireIds : IsResolved(m, w) =>
        /\ codex[w] = "closed"
        /\ \A k \in DOMAIN inbound' : ~IsResolved(inbound'[k], w) /\ ~IsApproval(inbound'[k], w)
  <2> SUFFICES ASSUME NEW w \in WireIds, IsResolved(m, w)
               PROVE  /\ codex[w] = "closed"
                      /\ \A k \in DOMAIN inbound' :
                           ~IsResolved(inbound'[k], w) /\ ~IsApproval(inbound'[k], w)
    OBVIOUS
  <2>1. codex[w] = "closed"
    BY <1>2 DEF PipeInv, ClosedIsClosed
  <2>2. ASSUME NEW k \in DOMAIN inbound', IsResolved(inbound'[k], w)
        PROVE  FALSE
    <3>1. k + 1 = 1
      BY <1>2, <2>2 DEF PipeInv, ResolvedOnce
    <3> QED
      BY <1>2, <3>1
  <2>3. ASSUME NEW k \in DOMAIN inbound', IsApproval(inbound'[k], w)
        PROVE  FALSE
    <3>1. 1 > k + 1
      BY <1>2, <2>3 DEF PipeInv, AskedBeforeClosed
    <3> QED
      BY <1>2, <3>1
  <2> QED
    BY <2>1, <2>2, <2>3
<1>5. responded' = responded
        \/ \E v \in WireIds : IsResolved(m, v) /\ responded' = responded \ {Normalized[v]}
  <2>1. HandleResolved(m) => m.wire \in WireIds
    BY <1>2 DEF HandleResolved, Message, ApprovalMsg, ResolvedMsg, StartedMsg, CompletedMsg,
                TurnMsg
  <2> QED
    BY <1>1, <2>1 DEF HandleMessage, HandleApproval, HandleItemStarted, HandleItemCompleted,
                      HandleResolved, HandleTurnCompleted, brokerVars, IsResolved
<1>6. Remembered'
  <2> SUFFICES ASSUME NEW w \in WireIds, Answered(w)
               PROVE  \/ Normalized[w] \in responded'
                      \/ /\ codex[w] = "closed"
                         /\ \A k \in DOMAIN inbound' : ~IsResolved(inbound'[k], w)
    BY <1>1, <1>3 DEF Remembered
  <2>1. CASE Normalized[w] \in responded
    <3>1. CASE Normalized[w] \in responded'
      BY <3>1
    <3>2. CASE Normalized[w] \notin responded'
      <4>1. IsResolved(m, w)
        BY <1>5, <2>1, <3>2
      <4> QED
        BY <1>4, <4>1
    <3> QED
      BY <3>1, <3>2
  <2>2. CASE codex[w] = "closed" /\ \A k \in DOMAIN inbound : ~IsResolved(inbound[k], w)
    BY <1>2, <2>2
  <2> QED
    BY <1>1, <2>1, <2>2 DEF StaleInv, Remembered
<1>7. ASSUME NEW w \in WireIds, StaleRecord(w) \in ResolutionsOf(m)
      PROVE  /\ IsResolved(m, w) /\ ~Answered(w) /\ pending'[Normalized[w]] = NoWire
  <2>1. m.method = "serverRequest/resolved"
    BY <1>7 DEF StaleRecord, ResolutionsOf, Resolution
  <2>2. m.wire \in WireIds
    BY <1>2, <2>1 DEF Message, ApprovalMsg, ResolvedMsg, StartedMsg, CompletedMsg, TurnMsg
  <2>3. /\ Normalized[w] = Normalized[m.wire] /\ Normalized[w] \notin PendingIds
        /\ Normalized[w] \notin responded
    BY <1>7, <2>1 DEF StaleRecord, ResolutionsOf, Resolution, ResolvedStale
  <2>4. IsResolved(m, w)
    BY <2>1, <2>2, <2>3 DEF IsResolved
  <2>5. ~Answered(w)
    BY <1>1, <1>2, <2>3, <2>4 DEF StaleInv, Remembered
  <2>6. pending' = [pending EXCEPT ![Normalized[m.wire]] = NoWire]
    BY <1>1, <2>1 DEF HandleMessage, HandleApproval, HandleItemStarted, HandleItemCompleted,
                      HandleResolved, HandleTurnCompleted
  <2> QED
    BY <2>3, <2>4, <2>5, <2>6 DEF TypeInv, BrokerTypeOK
<1>8. StaleIsOver'
  <2> SUFFICES ASSUME NEW w \in WireIds, StaleRecord(w) \in resolutionsLog'
               PROVE  /\ ~Answered(w)
                      /\ pending'[Normalized[w]] = NoWire
                      /\ \A k \in DOMAIN inbound' : ~IsApproval(inbound'[k], w)
                      /\ codex[w] = "closed"
    BY <1>1, <1>3 DEF StaleIsOver, StaleRecord
  <2>1. CASE StaleRecord(w) \in ResolutionsOf(m)
    BY <1>4, <1>7, <2>1
  <2>2. CASE StaleRecord(w) \in resolutionsLog
    <3>1. /\ ~Answered(w) /\ codex[w] = "closed" /\ pending[Normalized[w]] = NoWire
          /\ \A k \in DOMAIN inbound : ~IsApproval(inbound[k], w)
      BY <1>1, <2>2 DEF StaleInv, StaleIsOver, StaleRecord
    <3>2. pending'[Normalized[w]] = NoWire
      BY <1>1, <1>2, <3>1, PendingAfter
    <3> QED
      BY <1>2, <3>1, <3>2
  <2> QED
    BY <1>1, <2>1, <2>2
<1>9. BlankRecords'
  BY <1>1 DEF BlankRecords
<1> QED
  BY <1>6, <1>8, <1>9 DEF StaleInv

(* The App Server resolves no request twice and asks for none twice. *)
LEMMA StaleCodex ==
  ASSUME TypeInv, Phases, StaleInv, Environment
  PROVE  StaleInv'
<1>1. /\ CodexStep
      /\ UNCHANGED <<sent, responded, pending, loop, resolutionsLog, decisionsLog>>
  BY DEF Environment, brokerVars, serviceVars, auditVars
<1>2. /\ running /\ InLoop
      /\ \A w \in WireIds : codex[w] = "closed" => codex'[w] = "closed"
      /\ UNCHANGED inbound \/ \E m \in Message : Writes(m)
  BY <1>1, CodexWrites DEF Phases, NoChild
<1>3. \A w : Answered(w)' <=> Answered(w)
  BY <1>1 DEF Answered
<1>4. \A w \in WireIds : \A k \in DOMAIN inbound' : codex[w] = "closed" =>
        /\ IsResolved(inbound'[k], w) =>
             \E j \in DOMAIN inbound : IsResolved(inbound[j], w)
        /\ IsApproval(inbound'[k], w) =>
             \E j \in DOMAIN inbound : IsApproval(inbound[j], w)
  <2>1. CASE UNCHANGED inbound
    BY <2>1
  <2>2. ASSUME NEW m \in Message, Writes(m)
        PROVE  \A k \in DOMAIN inbound' :
                 \/ k \in DOMAIN inbound /\ inbound'[k] = inbound[k]
                 \/ inbound'[k] = m
    BY <2>2, Written DEF Writes
  <2>3. ASSUME NEW m \in Message, Writes(m), NEW w \in WireIds, codex[w] = "closed"
        PROVE  ~IsResolved(m, w) /\ ~IsApproval(m, w)
    BY <2>3 DEF Writes
  <2> QED
    BY <1>2, <2>1, <2>2, <2>3
<1>5. Remembered'
  BY <1>1, <1>2, <1>3, <1>4 DEF StaleInv, Remembered
<1>6. StaleIsOver'
  BY <1>1, <1>2, <1>3, <1>4 DEF StaleInv, StaleIsOver, InLoop
<1>7. BlankRecords'
  BY <1>1 DEF StaleInv, BlankRecords
<1> QED
  BY <1>5, <1>6, <1>7 DEF StaleInv

LEMMA StaleStep ==
  ASSUME TypeInv, Phases, Known, PipeInv, StaleInv, [Next]_vars
  PROVE  StaleInv'
<1> USE DEF InLoop, LoopSteps
<1>1. CASE Start
  BY <1>1 DEF Start, StaleInv, Remembered, StaleIsOver, BlankRecords
<1>2. CASE WriteStarting \/ Handshake
  <2>1. /\ sent = <<>> /\ resolutionsLog = {} /\ decisionsLog = <<>>
        /\ UNCHANGED <<sent, resolutionsLog, decisionsLog>>
    BY <1>2 DEF WriteStarting, Handshake, Phases, StaleInv, BlankRecords, auditVars
  <2>2. \A w : ~Answered(w)'
    BY <2>1 DEF Answered
  <2> QED
    BY <2>1, <2>2 DEF StaleInv, Remembered, StaleIsOver, BlankRecords
<1>3. CASE HandshakeFails \/ Timeout \/ PublishAndFinish
  BY <1>3, StaleClosed
     DEF HandshakeFails, Timeout, PublishAndFinish, CloseChild, ClosePipes, brokerVars, auditVars
<1>4. CASE WriteFinal \/ WriteError \/ Kill
  BY <1>4, StaleClosed
     DEF WriteFinal, WriteError, Kill, EndProcess, CloseChild, ClosePipes, ResetBroker, auditVars
<1>5. CASE AnswerFails
  BY <1>5, StaleClosed
     DEF AnswerFails, SendDecision, CloseChild, ClosePipes, auditVars, TypeInv, BrokerTypeOK
<1>6. CASE LoadResponses \/ RecordDecision \/ DrainDone
  BY <1>6, StaleUnchanged
     DEF LoadResponses, RecordDecision, DrainDone, brokerVars, codexVars, turnVars, pipeVars,
         auditVars
<1>7. CASE RejectQueued
  <2>1. \A w \in WireIds : StaleRecord(w) # Resolution(Head(batch).id, "response_rejected", TRUE)
    BY DEF StaleRecord, Resolution
  <2> QED
    BY <1>7, <2>1, StaleUnchanged DEF RejectQueued, brokerVars, codexVars, turnVars, pipeVars
<1>8. CASE ReadTimesOut \/ PublishAndContinue
  BY <1>8, StaleUnchanged
     DEF ReadTimesOut, ReadNothing, PublishAndContinue, brokerVars, codexVars, turnVars,
         pipeVars, auditVars
<1>9. CASE AnswerQueued
  BY <1>9, QueuedAnswers, StaleAnswered
<1>10. CASE ReadMessage
  BY <1>10, StaleRead
<1>11. ASSUME NEW c \in Clients, Ask(c) \/ Enqueue(c)
       PROVE  StaleInv'
  BY <1>11, StaleUnchanged
     DEF Ask, Enqueue, CheckStatus, CheckPending, CheckQueue, AppendResponse, ClientUnchanged,
         brokerVars, codexVars, turnVars, pipeVars, serviceVars, auditVars
<1>12. CASE Environment
  BY <1>12, StaleCodex
<1>13. CASE UNCHANGED vars
  BY <1>13, StaleUnchanged
     DEF vars, brokerVars, codexVars, turnVars, pipeVars, serviceVars, auditVars
<1> QED
  BY <1>1, <1>2, <1>3, <1>4, <1>5, <1>6, <1>7, <1>8, <1>9, <1>10, <1>11, <1>12, <1>13
     DEF Next, ServiceStep

(***************************************************************************)
(* The confirmation of a decision the broker sent is never logged as a     *)
(* stale resolution: the answered id is remembered until its resolution,   *)
(* which comes once, and a request resolved before it was read cannot be   *)
(* answered.                                                               *)
(***************************************************************************)
THEOREM ConfirmationsNotStale == Spec => []AnsweredNeverStale
<1>1. Init => StaleInv
  BY DEF Init, StaleInv, Remembered, StaleIsOver, BlankRecords, InLoop, LoopSteps
<1>2. AgreeInv /\ StaleInv /\ [Next]_vars => StaleInv'
  BY StaleStep DEF AgreeInv, IInv
<1>3. StaleInv => AnsweredNeverStale
  BY DEF StaleInv, StaleIsOver, AnsweredNeverStale
<1> QED
  BY <1>1, <1>2, <1>3, AgreeInductive, PTL DEF Spec

-----------------------------------------------------------------------------
(***************************************************************************)
(* The end of the turn.                                                    *)
(***************************************************************************)
IsTurnCompleted(m) == m.method = "turn/completed"

(* What any step of the App Server does to its turn.  One that waits for   *)
(* its requests is silent once the turn is completed.                      *)
LEMMA TurnWrites ==
  ASSUME TypeInv, CodexStep, TurnWaits,
         turn = "completed" => \A w \in WireIds : codex[w] # "open"
  PROVE  /\ turn = "completed" => UNCHANGED <<inbound, codex, turn>>
         /\ turn # "completed" =>
              \/ /\ UNCHANGED turn
                 /\ UNCHANGED inbound \/ \E m \in Message : Emit(m) /\ ~IsTurnCompleted(m)
              \/ /\ turn' = "completed" /\ \A w \in WireIds : codex'[w] # "open"
                 /\ \E m \in Message : Emit(m)
<1> USE DEF IsTurnCompleted
<1>1. ASSUME NEW i \in Items, StartItem(i) \/ ReportItem(i) \/ CompleteItem(i)
      PROVE  turn = "active" /\ UNCHANGED turn /\ \E m \in Message : Emit(m) /\ ~IsTurnCompleted(m)
  <2>1. /\ [method |-> "item/started", item |-> i] \in Message
        /\ [method |-> "item/completed", item |-> i, status |-> "inProgress"] \in Message
        /\ [method |-> "item/completed", item |-> i, status |-> "completed"] \in Message
    BY DEF Message, StartedMsg, CompletedMsg
  <2> QED
    BY <1>1, <2>1 DEF StartItem, ReportItem, CompleteItem
<1>2. ASSUME NEW w \in WireIds, RequestApproval(w)
      PROVE  turn = "active" /\ UNCHANGED turn /\ \E m \in Message : Emit(m) /\ ~IsTurnCompleted(m)
  <2>1. [method |-> "requestApproval", wire |-> w] \in Message
    BY DEF Message, ApprovalMsg
  <2> QED
    BY <1>2, <2>1 DEF RequestApproval
<1>3. ASSUME NEW w \in WireIds, codex[w] = "open", UNCHANGED turn,
             Emit([method |-> "serverRequest/resolved", wire |-> w])
      PROVE  turn # "completed" /\ UNCHANGED turn
               /\ \E m \in Message : Emit(m) /\ ~IsTurnCompleted(m)
  <2>1. [method |-> "serverRequest/resolved", wire |-> w] \in Message
    BY DEF Message, ResolvedMsg
  <2> QED
    BY <1>3, <2>1
<1>4. ASSUME NEW w \in WireIds, WithdrawRequest(w)
      PROVE  turn # "completed" /\ UNCHANGED turn
               /\ \E m \in Message : Emit(m) /\ ~IsTurnCompleted(m)
  BY <1>3, <1>4 DEF WithdrawRequest
<1>5. CASE TakeDecision
  <2>1. Head(outbound).wire \in WireIds
    BY <1>5 DEF TakeDecision, Answer
  <2>2. turn # "completed" /\ UNCHANGED turn
          /\ \E m \in Message : Emit(m) /\ ~IsTurnCompleted(m)
    BY <1>3, <1>5, <2>1 DEF TakeDecision
  <2> QED
    BY <2>2
<1>6. CASE IgnoreDecision \/ Die
  BY <1>6 DEF IgnoreDecision, Die, turnVars
<1>7. CASE CompleteTurn
  <2>1. [method |-> "turn/completed"] \in Message
    BY DEF Message, TurnMsg
  <2>2. turn = "active" /\ turn' = "completed" /\ \A w \in WireIds : codex'[w] # "open"
    BY <1>7 DEF CompleteTurn, OpenRequests
  <2> QED
    BY <1>7, <2>1, <2>2 DEF CompleteTurn
<1> QED
  BY <1>1, <1>2, <1>4, <1>5, <1>6, <1>7 DEF CodexStep

(* Only a turn that is completed is said to be. *)
LEMMA TurnReported ==
  ASSUME TypeInv, CodexStep
  PROVE  /\ turn = "completed" => turn' = "completed"
         /\ \/ UNCHANGED inbound
            \/ \E m \in Message : Emit(m) /\ (IsTurnCompleted(m) => turn' = "completed")
<1> USE DEF IsTurnCompleted
<1>1. ASSUME NEW i \in Items, StartItem(i) \/ ReportItem(i) \/ CompleteItem(i)
      PROVE  UNCHANGED turn /\ \E m \in Message : Emit(m) /\ ~IsTurnCompleted(m)
  <2>1. /\ [method |-> "item/started", item |-> i] \in Message
        /\ [method |-> "item/completed", item |-> i, status |-> "inProgress"] \in Message
        /\ [method |-> "item/completed", item |-> i, status |-> "completed"] \in Message
    BY DEF Message, StartedMsg, CompletedMsg
  <2> QED
    BY <1>1, <2>1 DEF StartItem, ReportItem, CompleteItem
<1>2. ASSUME NEW w \in WireIds, RequestApproval(w) \/ WithdrawRequest(w)
      PROVE  UNCHANGED turn /\ \E m \in Message : Emit(m) /\ ~IsTurnCompleted(m)
  <2>1. /\ [method |-> "requestApproval", wire |-> w] \in Message
        /\ [method |-> "serverRequest/resolved", wire |-> w] \in Message
    BY DEF Message, ApprovalMsg, ResolvedMsg
  <2> QED
    BY <1>2, <2>1 DEF RequestApproval, WithdrawRequest
<1>3. CASE TakeDecision
  <2>1. Head(outbound).wire \in WireIds
    BY <1>3 DEF TakeDecision, Answer
  <2>2. [method |-> "serverRequest/resolved", wire |-> Head(outbound).wire] \in Message
    BY <2>1 DEF Message, ResolvedMsg
  <2> QED
    BY <1>3, <2>2 DEF TakeDecision
<1>4. CASE IgnoreDecision \/ Die
  BY <1>4 DEF IgnoreDecision, Die, turnVars
<1>5. CASE CompleteTurn
  <2>1. [method |-> "turn/completed"] \in Message
    BY DEF Message, TurnMsg
  <2> QED
    BY <1>5, <2>1 DEF CompleteTurn
<1> QED
  BY <1>1, <1>2, <1>3, <1>4, <1>5 DEF CodexStep

(* Steps that leave the pipe and the turn as they are. *)
LEMMA TurnUnchanged ==
  ASSUME TurnInv, CompletedMeansDone,
         UNCHANGED <<inbound, turn, codex, turnCompleted>>,
         stateFile' = stateFile \/ WriteState(LoopStatus) \/ WriteState("starting")
           \/ WriteState("running"),
         \A r \in RequestIds : pending'[r] = pending[r] \/ pending'[r] = NoWire,
         InLoop' => InLoop,
         loop' \in {"down", "starting", "handshake"} => loop \in {"down", "starting", "handshake"}
  PROVE  TurnInv' /\ CompletedMeansDone'
<1>1. ASSUME TurnWaits, turnCompleted
      PROVE  NothingPending /\ NothingPending' /\ PendingIds = {}
  BY <1>1 DEF TurnInv, NothingPending, PendingIds, PendingIn
<1>2. TurnInv'
  <2>1. TurnWaits /\ turnCompleted' => NothingPending'
    BY <1>1
  <2> QED
    BY <2>1 DEF TurnInv
<1>3. LoopStatus = "completed" => turnCompleted
  BY DEF LoopStatus
<1>4. CompletedMeansDone'
  BY <1>1, <1>3 DEF CompletedMeansDone, WriteState
<1> QED
  BY <1>2, <1>4

(* The App Server goes. *)
LEMMA TurnClosed ==
  ASSUME TurnInv, CompletedMeansDone, CloseChild, ~InLoop',
         UNCHANGED turnCompleted \/ turnCompleted' = FALSE,
         loop' \in {"down", "starting", "handshake"} => turnCompleted' = FALSE,
         \A r \in RequestIds : pending'[r] = pending[r] \/ pending'[r] = NoWire,
         \/ stateFile' = stateFile
         \/ WriteState(LoopStatus)
         \/ WriteState("error")
         \/ WriteState(IF turnCompleted THEN "completed" ELSE "timeout")
  PROVE  TurnInv' /\ CompletedMeansDone'
<1>1. ASSUME TurnWaits, turnCompleted
      PROVE  NothingPending /\ NothingPending' /\ PendingIds = {}
  BY <1>1 DEF TurnInv, NothingPending, PendingIds, PendingIn
<1>2. inbound' = <<>> /\ turn' = "idle"
  BY DEF CloseChild, ResetTurn, ClosePipes
<1>3. TurnInv'
  <2>1. TurnWaits /\ turnCompleted' => NothingPending'
    BY <1>1
  <2> QED
    BY <1>2, <2>1 DEF TurnInv
<1>4. LoopStatus = "completed" => turnCompleted
  BY DEF LoopStatus
<1>5. CompletedMeansDone'
  BY <1>1, <1>4 DEF CompletedMeansDone, WriteState
<1> QED
  BY <1>3, <1>5

(* The message that completes the turn is read after every other. *)
LEMMA TurnRead ==
  ASSUME TypeInv, Known, PipeInv, Agreed, TurnInv, ReadMessage
  PROVE  TurnInv'
<1> DEFINE m == Head(inbound)
<1>1. /\ ReadLine /\ HandleMessage(m) /\ UNCHANGED <<codex, turn>> /\ InLoop
      /\ turnCompleted' = (turnCompleted \/ m.method = "turn/completed")
      /\ loop' = "publish"
  BY DEF ReadMessage, turnVars, InLoop, LoopSteps
<1>2. /\ m \in Message /\ m = inbound[1] /\ 1 \in DOMAIN inbound
      /\ Len(inbound) \in Nat \ {0} /\ Len(inbound') = Len(inbound) - 1
      /\ DOMAIN inbound = 1..Len(inbound)
      /\ \A k \in DOMAIN inbound' :
           k + 1 \in DOMAIN inbound /\ inbound'[k] = inbound[k + 1] /\ k \in Nat \ {0}
  BY <1>1, Taken
<1>3. \A k \in DOMAIN inbound' : inbound'[k].method = "turn/completed" => turn' = "completed"
  BY <1>1, <1>2 DEF TurnInv
<1>4. ASSUME TurnWaits
      PROVE  ~turnCompleted
  BY <1>1, <1>2, <1>4 DEF TurnInv
<1>5. ASSUME TurnWaits, m.method = "turn/completed"
      PROVE  NothingPending' /\ inbound' = <<>> /\ turn' = "completed"
  <2>1. Len(inbound) = 1
    BY <1>2, <1>5 DEF TurnInv
  <2>2. inbound' = <<>> /\ \A k \in DOMAIN inbound : k = 1
    <3>1. inbound' = Tail(inbound) /\ inbound \in Seq(Message)
      BY <1>1 DEF ReadLine, TypeInv, CodexTypeOK, PipeTypeOK
    <3> QED
      BY <1>2, <2>1, <3>1
  <2>3. turn = "completed" /\ \A w \in WireIds : codex[w] # "open"
    BY <1>2, <1>5 DEF TurnInv
  <2>4. \A w : ~Closes(m, w)
    BY <1>5 DEF Closes, IsResolved, IsCompleted
  <2>5. NothingPending
    <3> SUFFICES ASSUME NEW r \in RequestIds, pending[r] # NoWire PROVE FALSE
      BY DEF NothingPending
    <3>1. pending[r] \in WireIds
      BY DEF TypeInv, BrokerTypeOK
    <3> QED
      BY <1>1, <1>2, <2>2, <2>3, <2>4, <3>1 DEF Agreed, NoGhost
  <2>6. UNCHANGED pending
    BY <1>1, <1>5 DEF HandleMessage, HandleApproval, HandleItemStarted, HandleItemCompleted,
                      HandleResolved, HandleTurnCompleted, brokerVars
  <2> QED
    BY <1>1, <2>2, <2>3, <2>5, <2>6 DEF NothingPending
<1>6. ASSUME TurnWaits
      PROVE  \A k \in DOMAIN inbound' :
               inbound'[k].method = "turn/completed" => k = Len(inbound')
  BY <1>2, <1>6 DEF TurnInv
<1> QED
  BY <1>1, <1>3, <1>4, <1>5, <1>6 DEF TurnInv

LEMMA TurnCodex ==
  ASSUME TypeInv, Phases, TurnInv, Environment
  PROVE  TurnInv'
<1>1. CodexStep /\ UNCHANGED <<pending, loop, turnCompleted>>
  BY DEF Environment, brokerVars, serviceVars
<1>2. \A k \in DOMAIN inbound' : inbound'[k].method = "turn/completed" => turn' = "completed"
  <2>1. CASE UNCHANGED inbound
    BY <1>1, <2>1, TurnReported DEF TurnInv
  <2>2. ASSUME NEW m \in Message, Emit(m), IsTurnCompleted(m) => turn' = "completed"
        PROVE  \A k \in DOMAIN inbound' :
                 inbound'[k].method = "turn/completed" => turn' = "completed"
    <3>1. \A k \in DOMAIN inbound' :
            (k \in DOMAIN inbound /\ inbound'[k] = inbound[k]) \/ inbound'[k] = m
      BY <2>2, Written
    <3> QED
      BY <1>1, <2>2, <3>1, TurnReported DEF TurnInv, IsTurnCompleted
  <2> QED
    BY <1>1, <2>1, <2>2, TurnReported
<1>3. ASSUME TurnWaits
      PROVE  /\ turn' = "completed" => \A w \in WireIds : codex'[w] # "open"
             /\ \A k \in DOMAIN inbound' :
                  inbound'[k].method = "turn/completed" => k = Len(inbound')
             /\ turnCompleted => NothingPending
             /\ turnCompleted /\ InLoop => inbound' = <<>> /\ turn' = "completed"
  <2>1. CASE turn = "completed"
    BY <1>1, <1>3, <2>1, TurnWrites DEF TurnInv
  <2>2. CASE turn # "completed"
    <3>1. \A k \in DOMAIN inbound : inbound[k].method # "turn/completed"
      BY <2>2 DEF TurnInv
    <3>2. ASSUME NEW m \in Message, Emit(m)
          PROVE  \A k \in DOMAIN inbound' :
                   \/ inbound'[k].method # "turn/completed"
                   \/ k = Len(inbound') /\ inbound'[k] = m
      <4>1. inbound \in Seq(Message) /\ inbound' = Append(inbound, m)
        BY <3>2 DEF TypeInv, CodexTypeOK, PipeTypeOK, Emit
      <4>2. Len(inbound') = Len(inbound) + 1
        BY <4>1
      <4> QED
        BY <3>1, <3>2, <4>2, Written
    <3>3. ~(turnCompleted /\ InLoop)
      BY <1>3, <2>2 DEF TurnInv
    <3>4. turn' = "completed" => \A w \in WireIds : codex'[w] # "open"
      BY <1>1, <1>3, <2>2, TurnWrites
    <3>5. CASE UNCHANGED inbound
      BY <1>3, <3>1, <3>3, <3>4, <3>5 DEF TurnInv
    <3>6. CASE \E m \in Message : Emit(m)
      BY <1>3, <3>2, <3>3, <3>4, <3>6 DEF TurnInv
    <3> QED
      BY <1>1, <1>3, <2>2, <3>5, <3>6, TurnWrites
  <2> QED
    BY <2>1, <2>2
<1>4. NothingPending' <=> NothingPending
  BY <1>1 DEF NothingPending
<1> QED
  BY <1>1, <1>2, <1>3, <1>4 DEF TurnInv, InLoop

LEMMA TurnStep ==
  ASSUME TypeInv, Phases, Known, PipeInv, Agreed, TurnInv, CompletedMeansDone, [Next]_vars
  PROVE  TurnInv' /\ CompletedMeansDone'
<1> USE DEF InLoop, LoopSteps
<1>1. CASE Start \/ WriteStarting
  BY <1>1, TurnUnchanged
     DEF Start, WriteStarting, brokerVars, codexVars, turnVars, pipeVars
<1>2. CASE Handshake
  <2>1. /\ inbound = <<>> /\ UNCHANGED inbound /\ turn' = "active"
        /\ UNCHANGED <<pending, turnCompleted>> /\ turnCompleted = FALSE
    BY <1>2 DEF Handshake, Phases, NoChild, brokerVars, TurnInv
  <2> QED
    BY <1>2, <2>1 DEF Handshake, TurnInv, CompletedMeansDone, WriteState
<1>3. CASE HandshakeFails \/ Timeout \/ PublishAndFinish
  BY <1>3, TurnClosed DEF HandshakeFails, Timeout, PublishAndFinish, brokerVars, fileVars
<1>4. CASE WriteFinal \/ WriteError \/ Kill
  BY <1>4, TurnClosed DEF WriteFinal, WriteError, Kill, EndProcess, ResetBroker
<1>5. CASE AnswerFails
  BY <1>5, TurnClosed DEF AnswerFails, SendDecision, fileVars, TypeInv, BrokerTypeOK
<1>6. CASE LoadResponses \/ RecordDecision \/ RejectQueued \/ DrainDone
  BY <1>6, TurnUnchanged
     DEF LoadResponses, RecordDecision, RejectQueued, DrainDone, brokerVars, codexVars, turnVars,
         pipeVars, fileVars
<1>7. CASE AnswerQueued
  BY <1>7, TurnUnchanged
     DEF AnswerQueued, SendDecision, SendLine, turnVars, fileVars, TypeInv, BrokerTypeOK
<1>8. CASE ReadMessage
  BY <1>8, TurnRead DEF ReadMessage, fileVars, CompletedMeansDone
<1>9. CASE ReadTimesOut \/ PublishAndContinue
  BY <1>9, TurnUnchanged
     DEF ReadTimesOut, ReadNothing, PublishAndContinue, brokerVars, codexVars, turnVars,
         pipeVars, fileVars
<1>10. ASSUME NEW c \in Clients, Ask(c) \/ Enqueue(c)
       PROVE  TurnInv' /\ CompletedMeansDone'
  BY <1>10, TurnUnchanged
     DEF Ask, Enqueue, CheckStatus, CheckPending, CheckQueue, AppendResponse, ClientUnchanged,
         brokerVars, codexVars, turnVars, pipeVars, serviceVars, fileVars
<1>11. CASE Environment
  BY <1>11, TurnCodex DEF Environment, fileVars, CompletedMeansDone
<1>12. CASE UNCHANGED vars
  BY <1>12, TurnUnchanged
     DEF vars, brokerVars, codexVars, turnVars, pipeVars, serviceVars, fileVars
<1> QED
  BY <1>1, <1>2, <1>3, <1>4, <1>5, <1>6, <1>7, <1>8, <1>9, <1>10, <1>11, <1>12
     DEF Next, ServiceStep

(***************************************************************************)
(* With an App Server that completes no turn with a request open, the      *)
(* state file that says "completed" lists nothing pending: when the last   *)
(* message is read, whatever was pending has been closed before it.        *)
(***************************************************************************)
THEOREM CompletedListsNothing == Spec => []CompletedMeansDone
<1>1. Init => TurnInv /\ CompletedMeansDone
  BY DEF Init, NoTurn, PipesEmpty, TurnInv, CompletedMeansDone
<1>2. AgreeInv /\ TurnInv /\ CompletedMeansDone /\ [Next]_vars => TurnInv' /\ CompletedMeansDone'
  BY TurnStep DEF AgreeInv, IInv
<1> QED
  BY <1>1, <1>2, AgreeInductive, PTL DEF Spec

=============================================================================
