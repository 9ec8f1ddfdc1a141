-------------------------- MODULE BrokerAuditProofs --------------------------
(***************************************************************************)
(* Proofs that what the broker service leaves behind can be relied on, for *)
(* every value of the constants: the state file at the top of the loop,    *)
(* the decisions file, the cursor over the response queue, and the three   *)
(* audit files taken together; and that the service implements the ledger  *)
(* of approvals.                                                           *)
(***************************************************************************)
EXTENDS BrokerServiceProofs

(***************************************************************************)
(* The state file.  Between the top of the loop and the write at its end,  *)
(* the file may lag behind memory only if `changed' says so.               *)
(***************************************************************************)
Current == stateFile = [status |-> LoopStatus, pending |-> PendingIds, run |-> run]

PublishInv ==
  /\ loop \in {"down", "starting", "handshake"} => turnCompleted = FALSE
  /\ loop = "top" => Current
  /\ loop \in {"drain", "read", "publish"} => changed \/ Current

(* A message that emits no event changes nothing that is published. *)
LEMMA SilentMessage ==
  ASSUME NEW m \in Message, BrokerTypeOK, HandleMessage(m), ~Emits(m)
  PROVE  UNCHANGED pending /\ m.method # "turn/completed"
<1>1. m.method # "turn/completed" /\ ResolutionsOf(m) = {} /\ ApprovalsOf(m) = {}
  BY DEF Emits
<1>2. m.method # "requestApproval" /\ m.method # "serverRequest/resolved"
  BY <1>1 DEF ApprovalsOf, ResolutionsOf
<1>3. CASE HandleItemStarted(m)
  BY <1>1, <1>3 DEF HandleItemStarted
<1>4. CASE HandleItemCompleted(m)
  <2>1. CASE m.status = "inProgress"
    BY <1>4, <2>1 DEF HandleItemCompleted
  <2>2. CASE m.status # "inProgress"
    <3>1. PendingOf(m.item) = {}
      BY <1>1, <1>4, <2>2 DEF ResolutionsOf, HandleItemCompleted
    <3>2. pending' = [r \in RequestIds |-> pending[r]]
      BY <1>4, <2>2, <3>1 DEF HandleItemCompleted, CleanupForItem
    <3> QED
      BY <1>1, <3>2 DEF BrokerTypeOK
  <2> QED
    BY <2>1, <2>2
<1> QED
  BY <1>1, <1>2, <1>3, <1>4
     DEF HandleMessage, HandleApproval, HandleResolved, HandleTurnCompleted

LEMMA PublishStep ==
  ASSUME TypeInv, Phases, PublishInv, [Next]_vars
  PROVE  PublishInv'
<1> USE DEF PublishInv
<1>1. CASE Start \/ WriteStarting
  BY <1>1 DEF Start, WriteStarting
<1>2. CASE Handshake
  <2>1. PendingIds' = {} /\ turnCompleted' = FALSE /\ loop' = "top"
    BY <1>2 DEF Handshake, Phases, NothingPending, brokerVars, PendingIds, PendingIn
  <2>2. LoopStatus' = "running"
    BY <2>1 DEF LoopStatus
  <2>3. stateFile' = [status |-> "running", pending |-> {}, run |-> run']
    BY <1>2 DEF Handshake, Phases, NothingPending, WriteState, PendingIds, PendingIn
  <2> QED
    BY <2>1, <2>2, <2>3 DEF Current
<1>3. CASE HandshakeFails \/ Timeout \/ AnswerFails \/ PublishAndFinish
  BY <1>3 DEF HandshakeFails, Timeout, AnswerFails, PublishAndFinish
<1>4. CASE WriteFinal \/ WriteError \/ Kill
  BY <1>4 DEF WriteFinal, WriteError, Kill, EndProcess
<1>5. CASE LoadResponses
  BY <1>5 DEF LoadResponses, Current, LoopStatus, PendingIds, PendingIn, brokerVars, fileVars
<1>6. CASE AnswerQueued \/ RecordDecision \/ RejectQueued
  BY <1>6 DEF AnswerQueued, RecordDecision, RejectQueued
<1>7. CASE DrainDone \/ ReadTimesOut
  BY <1>7 DEF DrainDone, ReadTimesOut, Current, LoopStatus, PendingIds, PendingIn, brokerVars,
              fileVars
<1>8. CASE ReadMessage
  <2> DEFINE m == Head(inbound)
  <2>1. m \in Message
    BY <1>8, HeadTailProperties DEF ReadMessage, ReadLine, TypeInv, CodexTypeOK, PipeTypeOK
  <2>2. CASE changed \/ Emits(m)
    BY <1>8, <2>2 DEF ReadMessage
  <2>3. CASE ~changed /\ ~Emits(m)
    <3>1. UNCHANGED pending /\ m.method # "turn/completed"
      BY <1>8, <2>1, <2>3, SilentMessage DEF ReadMessage, TypeInv
    <3>2. UNCHANGED turnCompleted
      BY <1>8, <3>1 DEF ReadMessage, TypeInv, ServiceTypeOK
    <3>3. Current'
      BY <1>8, <2>3, <3>1, <3>2
         DEF ReadMessage, Current, LoopStatus, PendingIds, PendingIn, fileVars
    <3> QED
      BY <1>8, <3>3 DEF ReadMessage
  <2> QED
    BY <2>2, <2>3
<1>9. CASE PublishAndContinue
  BY <1>9 DEF PublishAndContinue, WriteState, Current, LoopStatus, PendingIds, PendingIn,
              brokerVars
<1>10. ASSUME NEW c \in Clients, Ask(c) \/ Enqueue(c)
       PROVE  PublishInv'
  BY <1>10 DEF Ask, Enqueue, CheckStatus, CheckPending, CheckQueue, AppendResponse,
               ClientUnchanged, brokerVars, serviceVars, fileVars,
               Current, LoopStatus, PendingIds, PendingIn
<1>11. CASE Environment \/ UNCHANGED vars
  BY <1>11 DEF Environment, vars, brokerVars, serviceVars, fileVars,
               Current, LoopStatus, PendingIds, PendingIn
<1> QED
  BY <1>1, <1>2, <1>3, <1>4, <1>5, <1>6, <1>7, <1>8, <1>9, <1>10, <1>11 DEF Next, ServiceStep

(***************************************************************************)
(* The state file is current whenever the loop is at its top: no path      *)
(* through a pass changes what is pending, or completes the turn, without  *)
(* writing it.                                                             *)
(***************************************************************************)
THEOREM StateFileCurrent == Spec => []PublishedStateCurrent
<1>1. Init => PublishInv
  BY DEF Init, PublishInv
<1>2. IInv /\ PublishInv /\ [Next]_vars => PublishInv'
  BY PublishStep DEF IInv
<1>3. PublishInv => PublishedStateCurrent
  BY DEF PublishInv, PublishedStateCurrent, Current
<1> QED
  BY <1>1, <1>2, <1>3, Inductive, PTL DEF Spec

-----------------------------------------------------------------------------
(***************************************************************************)
(* The decisions file.  An answer is written to Codex one step before its  *)
(* record: in between, the queue line it came from still heads the batch.  *)
(***************************************************************************)
AuditInv ==
  /\ AuditMatchesAnswers
  /\ loop = "audit" =>
       /\ Len(sent) = Len(decisionsLog) + 1
       /\ sent[Len(sent)].response = Head(batch)
  /\ loop \in {"starting", "handshake"} => sent = <<>> /\ decisionsLog = <<>>

Listed ==
  \A k \in DOMAIN decisionsLog :
    decisionsLog[k] = [id |-> sent[k].response.id, decision |-> sent[k].response.decision]

(* An answer is one more than the records; its record makes them as many.  *)
LEMMA AnswerUnrecorded ==
  ASSUME TypeInv, NEW y \in Response, Answers(y), Len(sent) = Len(decisionsLog), Listed
  PROVE  /\ Len(sent') = Len(decisionsLog') + 1
         /\ sent'[Len(sent')].response = y
         /\ Listed'
<1> DEFINE x == [wire |-> pending[y.id], response |-> y]
<1>1. sent' = Append(sent, x) /\ UNCHANGED decisionsLog
  BY DEF Answers, auditVars
<1>2. /\ sent \in Seq([wire : WireIds, response : Response])
      /\ decisionsLog \in Seq([id : RequestIds, decision : Decisions])
  BY DEF TypeInv, AuditTypeOK
<1>3. /\ Len(sent') = Len(decisionsLog) + 1
      /\ sent'[Len(sent')] = x
      /\ \A k \in 1..Len(decisionsLog) : sent'[k] = sent[k]
  BY <1>1, <1>2
<1>4. DOMAIN decisionsLog = 1..Len(decisionsLog)
  BY <1>2
<1> QED
  BY <1>1, <1>3, <1>4 DEF Listed

LEMMA AnswerRecorded ==
  ASSUME TypeInv, NEW y, Len(sent) = Len(decisionsLog) + 1, sent[Len(sent)].response = y, Listed,
         decisionsLog' = Append(decisionsLog, [id |-> y.id, decision |-> y.decision]),
         UNCHANGED sent
  PROVE  Len(sent') = Len(decisionsLog') /\ Listed'
<1> DEFINE e == [id |-> y.id, decision |-> y.decision]
<1>1. /\ sent \in Seq([wire : WireIds, response : Response])
      /\ decisionsLog \in Seq([id : RequestIds, decision : Decisions])
  BY DEF TypeInv, AuditTypeOK
<1>2. /\ Len(decisionsLog') = Len(sent)
      /\ DOMAIN decisionsLog' = 1..Len(sent)
      /\ DOMAIN decisionsLog = 1..Len(decisionsLog)
      /\ \A k \in 1..Len(decisionsLog) : decisionsLog'[k] = decisionsLog[k]
      /\ decisionsLog'[Len(sent)] = e
  BY <1>1
<1>3. \A k \in 1..Len(sent) : k \in 1..Len(decisionsLog) \/ k = Len(sent)
  BY <1>1
<1> QED
  BY <1>2, <1>3 DEF Listed

LEMMA AuditUnchanged ==
  ASSUME AuditInv, UNCHANGED <<sent, decisionsLog>>,
         loop # "audit", loop' # "audit",
         loop' \in LoopSteps => loop \in LoopSteps \cup {"handshake"},
         loop' \notin {"starting", "handshake"} \/ (sent = <<>> /\ decisionsLog = <<>>)
  PROVE  AuditInv'
<1>1. loop' \in LoopSteps => Len(sent) - Len(decisionsLog) # 1
  BY DEF AuditInv, AuditMatchesAnswers, LoopSteps
<1>2. AuditMatchesAnswers'
  BY <1>1 DEF AuditInv, AuditMatchesAnswers
<1> QED
  BY <1>2 DEF AuditInv

LEMMA AuditStep ==
  ASSUME TypeInv, AuditInv, [Next]_vars
  PROVE  AuditInv'
<1> USE DEF LoopSteps
<1>1. CASE Start
  BY <1>1 DEF Start, AuditInv, AuditMatchesAnswers
<1>2. CASE WriteStarting \/ Handshake \/ HandshakeFails \/ Timeout
  BY <1>2, AuditUnchanged
     DEF WriteStarting, Handshake, HandshakeFails, Timeout, auditVars, AuditInv
<1>3. CASE WriteFinal \/ WriteError \/ Kill
  BY <1>3 DEF WriteFinal, WriteError, Kill, EndProcess, auditVars, AuditInv, AuditMatchesAnswers
<1>4. CASE LoadResponses \/ AnswerFails \/ RejectQueued \/ DrainDone
  BY <1>4, AuditUnchanged DEF LoadResponses, AnswerFails, RejectQueued, DrainDone, auditVars
<1>5. CASE ReadMessage \/ ReadTimesOut \/ PublishAndContinue \/ PublishAndFinish
  BY <1>5, AuditUnchanged
     DEF ReadMessage, ReadTimesOut, PublishAndContinue, PublishAndFinish, auditVars
<1>6. CASE AnswerQueued
  <2>1. /\ loop = "drain" /\ loop' = "audit" /\ UNCHANGED batch
    BY <1>6 DEF AnswerQueued
  <2>2. Len(sent) \in Nat /\ Len(decisionsLog) \in Nat
    BY DEF TypeInv, AuditTypeOK
  <2>3. Len(sent) = Len(decisionsLog) /\ Listed
    BY <2>1, <2>2 DEF AuditInv, AuditMatchesAnswers, Listed
  <2>4. /\ Len(sent') = Len(decisionsLog') + 1
        /\ sent'[Len(sent')].response = Head(batch)
        /\ Listed'
    BY <1>6, <2>3, QueuedAnswers, AnswerUnrecorded
  <2>5. Len(decisionsLog') \in Nat
    BY <1>6, <2>2 DEF AnswerQueued, auditVars
  <2>6. Len(sent') - Len(decisionsLog') = 1
    BY <2>4, <2>5
  <2> QED
    BY <2>1, <2>4, <2>6 DEF AuditInv, AuditMatchesAnswers, Listed
<1>7. CASE RecordDecision
  <2>1. /\ loop = "audit" /\ loop' = "drain"
        /\ Len(sent) = Len(decisionsLog) + 1
        /\ sent[Len(sent)].response = Head(batch)
        /\ UNCHANGED sent
    BY <1>7 DEF RecordDecision, AuditInv
  <2>2. Len(sent') = Len(decisionsLog') /\ Listed'
    BY <1>7, <2>1, AnswerRecorded DEF RecordDecision, AuditInv, AuditMatchesAnswers, Listed
  <2>3. Len(sent') \in Nat
    BY <2>1 DEF TypeInv, AuditTypeOK
  <2>4. Len(sent') - Len(decisionsLog') = 0
    BY <2>2, <2>3
  <2> QED
    BY <2>1, <2>2, <2>4 DEF AuditInv, AuditMatchesAnswers, Listed
<1>8. ASSUME NEW c \in Clients, Ask(c) \/ Enqueue(c)
      PROVE  AuditInv'
  BY <1>8 DEF Ask, Enqueue, CheckStatus, CheckPending, CheckQueue, AppendResponse,
              ClientUnchanged, serviceVars, auditVars, AuditInv, AuditMatchesAnswers
<1>9. CASE Environment \/ UNCHANGED vars
  BY <1>9 DEF Environment, vars, serviceVars, auditVars, AuditInv, AuditMatchesAnswers
<1> QED
  BY <1>1, <1>2, <1>3, <1>4, <1>5, <1>6, <1>7, <1>8, <1>9 DEF Next, ServiceStep

(***************************************************************************)
(* The decisions file is the list of answers Codex was sent, whenever the  *)
(* service is killed: at most the last answer misses its record.           *)
(***************************************************************************)
THEOREM DecisionsRecorded == Spec => []AuditMatchesAnswers
<1>1. Init => AuditInv
  BY DEF Init, AuditInv, AuditMatchesAnswers
<1>2. IInv /\ AuditInv /\ [Next]_vars => AuditInv'
  BY AuditStep DEF IInv
<1>3. AuditInv => AuditMatchesAnswers
  BY DEF AuditInv
<1> QED
  BY <1>1, <1>2, <1>3, Inductive, PTL DEF Spec

-----------------------------------------------------------------------------
(***************************************************************************)
(* The response queue.  The batch is the stretch of the queue file that    *)
(* ends at the cursor, and it is empty before the cursor moves.            *)
(***************************************************************************)
BatchIsTail ==
  /\ Len(batch) <= cursor
  /\ cursor <= Len(queue)
  /\ \A k \in 1..Len(batch) : batch[k] = queue[cursor - Len(batch) + k]

Handled(response, answers, records) ==
  \/ \E j \in DOMAIN answers : answers[j].response = response
  \/ Resolution(response.id, "response_rejected", TRUE) \in records

QueueInv ==
  /\ BatchIsTail
  /\ loop \in {"down", "starting", "handshake"} => cursor = 0
  /\ loop \in {"top", "read", "publish"} => batch = <<>>
  /\ loop = "audit" => Handled(Head(batch), sent, resolutionsLog)
  /\ NoResponseDropped

LEMMA HandledStays ==
  ASSUME NEW response, Handled(response, sent, resolutionsLog), TypeInv,
         resolutionsLog \subseteq resolutionsLog',
         \/ UNCHANGED sent
         \/ \E x \in [wire : WireIds, response : Response] : sent' = Append(sent, x)
  PROVE  Handled(response, sent', resolutionsLog')
<1>1. sent \in Seq([wire : WireIds, response : Response])
  BY DEF TypeInv, AuditTypeOK
<1>2. \A j \in DOMAIN sent : j \in DOMAIN sent' /\ sent'[j] = sent[j]
  BY <1>1
<1> QED
  BY <1>2 DEF Handled

LEMMA QueueStep ==
  ASSUME TypeInv, QueueInv, [Next]_vars
  PROVE  QueueInv'
<1> USE DEF LoopSteps
<1>0. /\ batch \in Seq(Response) /\ queue \in Seq(Response) /\ cursor \in Nat
      /\ Len(batch) \in Nat /\ Len(queue) \in Nat
  BY DEF TypeInv, ServiceTypeOK, FilesTypeOK
<1>1. CASE Start
  <2>1. cursor = 0 /\ UNCHANGED <<cursor, batch>> /\ queue' = <<>> /\ loop' = "starting"
    BY <1>1 DEF Start, QueueInv
  <2>2. Len(batch) = 0 /\ Len(queue') = 0
    BY <1>0, <2>1 DEF QueueInv, BatchIsTail
  <2> QED
    BY <1>0, <2>1, <2>2 DEF QueueInv, BatchIsTail, NoResponseDropped
<1>2. ASSUME UNCHANGED <<cursor, batch, queue, sent, resolutionsLog>>,
             loop' \in {"down", "starting", "handshake"} => cursor = 0,
             loop' \in {"top", "read", "publish"} => batch = <<>>,
             loop' = "audit" => loop = "audit"
      PROVE  QueueInv'
  BY <1>2 DEF QueueInv, BatchIsTail, NoResponseDropped, Handled
<1>3. CASE WriteStarting \/ HandshakeFails \/ Timeout
  BY <1>2, <1>3 DEF WriteStarting, HandshakeFails, Timeout, auditVars, fileVars, QueueInv
<1>4. CASE Handshake
  <2>1. Len(batch) = 0
    BY <1>0, <1>4 DEF Handshake, QueueInv, BatchIsTail
  <2>2. batch = <<>>
    BY <1>0, <2>1
  <2> QED
    BY <1>2, <1>4, <2>2 DEF Handshake, auditVars
<1>5. CASE WriteFinal \/ WriteError \/ Kill
  <2>1. /\ loop' = "down" /\ cursor' = 0 /\ batch' = <<>> /\ Len(batch') = 0
        /\ UNCHANGED queue
    BY <1>5 DEF WriteFinal, WriteError, Kill, EndProcess
  <2> QED
    BY <1>0, <2>1 DEF QueueInv, BatchIsTail, NoResponseDropped
<1>6. CASE LoadResponses
  <2> DEFINE b == SubSeq(queue, cursor + 1, Len(queue))
  <2>1. /\ batch = <<>> /\ batch' = b /\ cursor' = Len(queue) /\ loop' = "drain"
        /\ UNCHANGED <<queue, sent, resolutionsLog>>
    BY <1>6 DEF LoadResponses, QueueInv, fileVars, auditVars
  <2>2. /\ Len(b) = Len(queue) - cursor
        /\ \A k \in 1..Len(b) : b[k] = queue[cursor + k]
    BY <1>0, SubSeqProperties DEF QueueInv, BatchIsTail
  <2>3. BatchIsTail'
    <3>1. cursor' - Len(batch') = cursor /\ Len(batch') = Len(b)
      BY <1>0, <2>1, <2>2
    <3>2. Len(batch') <= cursor' /\ cursor' <= Len(queue')
      BY <1>0, <2>1, <2>2
    <3>3. ASSUME NEW k \in 1..Len(batch')
          PROVE  batch'[k] = queue'[cursor' - Len(batch') + k]
      BY <2>1, <2>2, <3>1, <3>3
    <3> QED
      BY <3>2, <3>3 DEF BatchIsTail
  <2>4. cursor' - Len(batch') = cursor - Len(batch)
    BY <1>0, <2>1, <2>2
  <2>5. NoResponseDropped'
    BY <2>1, <2>4 DEF NoResponseDropped, QueueInv
  <2> QED
    BY <2>1, <2>3, <2>5 DEF QueueInv
<1>7. CASE AnswerQueued
  <2> DEFINE x == [wire |-> pending[Head(batch).id], response |-> Head(batch)]
  <2>1. /\ batch # <<>> /\ loop' = "audit" /\ sent' = Append(sent, x)
        /\ UNCHANGED <<cursor, batch, queue, resolutionsLog>>
    BY <1>7 DEF AnswerQueued, fileVars, auditVars
  <2>2. x \in [wire : WireIds, response : Response]
    <3>1. Head(batch) \in Response
      BY <1>0, <2>1, HeadTailProperties
    <3>2. Head(batch).id \in RequestIds
      BY <3>1 DEF Response
    <3>3. pending[Head(batch).id] \in WireIds
      BY <1>7, <3>2 DEF AnswerQueued, SendDecision, TypeInv, BrokerTypeOK
    <3> QED
      BY <3>1, <3>3
  <2>3. sent \in Seq([wire : WireIds, response : Response])
    BY DEF TypeInv, AuditTypeOK
  <2>4. Len(sent) + 1 \in DOMAIN sent' /\ sent'[Len(sent) + 1] = x
    BY <2>1, <2>2, <2>3
  <2>5. Handled(Head(batch), sent', resolutionsLog')
    <3>1. sent'[Len(sent) + 1].response = Head(batch)
      BY <2>4
    <3> QED
      BY <2>4, <3>1 DEF Handled
  <2>6. NoResponseDropped'
    <3> SUFFICES ASSUME NEW k \in 1..(cursor' - Len(batch'))
                 PROVE  Handled(queue[k], sent', resolutionsLog')
      BY <2>1 DEF NoResponseDropped, Handled
    <3>1. Handled(queue[k], sent, resolutionsLog)
      BY <2>1 DEF QueueInv, NoResponseDropped, Handled
    <3> QED
      BY <2>1, <2>2, <3>1, HandledStays
  <2> QED
    BY <2>1, <2>5, <2>6 DEF QueueInv, BatchIsTail
<1>8. CASE RecordDecision \/ RejectQueued
  <2>1. /\ batch # <<>> /\ batch' = Tail(batch) /\ loop' = "drain"
        /\ UNCHANGED <<cursor, queue, sent>>
        /\ resolutionsLog \subseteq resolutionsLog'
    BY <1>8 DEF RecordDecision, RejectQueued, fileVars, TypeInv, ServiceTypeOK
  <2>2. /\ Len(batch') = Len(batch) - 1 /\ Len(batch) > 0
        /\ Head(batch) = batch[1]
        /\ \A k \in 1..Len(batch') : batch'[k] = batch[k + 1]
    BY <1>0, <2>1
  <2>3. Head(batch) = queue[cursor - Len(batch) + 1]
    BY <1>0, <2>2 DEF QueueInv, BatchIsTail
  <2>4. Handled(Head(batch), sent', resolutionsLog')
    <3>1. CASE RecordDecision
      BY <3>1 DEF RecordDecision, QueueInv, Handled
    <3>2. CASE RejectQueued
      BY <3>2 DEF RejectQueued, Handled
    <3> QED
      BY <1>8, <3>1, <3>2
  <2>5. BatchIsTail'
    BY <1>0, <2>1, <2>2 DEF QueueInv, BatchIsTail
  <2>6. NoResponseDropped'
    <3> SUFFICES ASSUME NEW k \in 1..(cursor' - Len(batch'))
                 PROVE  Handled(queue[k], sent', resolutionsLog')
      BY <2>1 DEF NoResponseDropped, Handled
    <3>1. CASE k \in 1..(cursor - Len(batch))
      <4>1. Handled(queue[k], sent, resolutionsLog)
        BY <3>1 DEF QueueInv, NoResponseDropped, Handled
      <4> QED
        BY <2>1, <4>1 DEF Handled
    <3>2. CASE k = cursor - Len(batch) + 1
      BY <2>3, <2>4, <3>2
    <3>3. cursor' - Len(batch') = cursor - Len(batch) + 1 /\ cursor - Len(batch) \in Nat
      BY <1>0, <2>1, <2>2 DEF QueueInv, BatchIsTail
    <3> QED
      BY <3>1, <3>2, <3>3
  <2> QED
    BY <2>1, <2>5, <2>6 DEF QueueInv
<1>9. CASE AnswerFails \/ DrainDone \/ ReadTimesOut \/ PublishAndContinue \/ PublishAndFinish
  BY <1>2, <1>9
     DEF AnswerFails, DrainDone, ReadTimesOut, PublishAndContinue, PublishAndFinish,
         auditVars, fileVars, QueueInv
<1>10. CASE ReadMessage
  <2>1. /\ UNCHANGED <<cursor, batch, queue, sent>> /\ loop = "read" /\ loop' = "publish"
        /\ resolutionsLog \subseteq resolutionsLog'
    BY <1>10 DEF ReadMessage, fileVars
  <2>2. NoResponseDropped'
    BY <2>1 DEF QueueInv, NoResponseDropped
  <2> QED
    BY <2>1, <2>2 DEF QueueInv, BatchIsTail
<1>11. ASSUME NEW c \in Clients, Ask(c) \/ Enqueue(c)
       PROVE  QueueInv'
  <2>1. UNCHANGED <<loop, cursor, batch, sent, resolutionsLog>>
    BY <1>11 DEF Ask, Enqueue, CheckStatus, CheckPending, CheckQueue, AppendResponse,
                 ClientUnchanged, serviceVars, auditVars
  <2>2. CASE UNCHANGED queue
    BY <2>1, <2>2 DEF QueueInv, BatchIsTail, NoResponseDropped, Handled
  <2>3. CASE queue' = Append(queue, client[c].response)
    <3>1. Len(queue') = Len(queue) + 1 /\ \A k \in 1..Len(queue) : queue'[k] = queue[k]
      BY <1>0, <2>3
    <3>2. BatchIsTail'
      BY <1>0, <2>1, <3>1 DEF QueueInv, BatchIsTail
    <3>3. \A k \in 1..(cursor - Len(batch)) : queue'[k] = queue[k]
      BY <1>0, <3>1 DEF QueueInv, BatchIsTail
    <3>4. NoResponseDropped'
      BY <2>1, <3>3 DEF QueueInv, NoResponseDropped
    <3> QED
      BY <2>1, <3>2, <3>4 DEF QueueInv, Handled
  <2> QED
    BY <1>11, <2>2, <2>3 DEF Ask, Enqueue, CheckStatus, CheckPending, CheckQueue,
                             AppendResponse, fileVars
<1>12. CASE Environment \/ UNCHANGED vars
  <2>1. UNCHANGED <<loop, cursor, batch, queue, sent, resolutionsLog>>
    BY <1>12 DEF Environment, vars, serviceVars, fileVars, auditVars
  <2> QED
    BY <2>1 DEF QueueInv, BatchIsTail, NoResponseDropped, Handled
<1> QED
  BY <1>1, <1>3, <1>4, <1>5, <1>6, <1>7, <1>8, <1>9, <1>10, <1>11, <1>12 DEF Next, ServiceStep

(***************************************************************************)
(* No response is skipped: every queue line behind the cursor and outside  *)
(* the batch was answered to Codex or recorded as rejected.                *)
(***************************************************************************)
THEOREM NothingDropped == Spec => []NoResponseDropped
<1>1. Init => QueueInv
  BY DEF Init, QueueInv, BatchIsTail, NoResponseDropped
<1>2. IInv /\ QueueInv /\ [Next]_vars => QueueInv'
  BY QueueStep DEF IInv
<1>3. QueueInv => NoResponseDropped
  BY DEF QueueInv
<1> QED
  BY <1>1, <1>2, <1>3, Inductive, PTL DEF Spec

-----------------------------------------------------------------------------
(***************************************************************************)
(* The audit files.  What is asked of an operator was recorded, here or by *)
(* an earlier run; a record of an id, of this run alone, says it is over;  *)
(* and what is over has a record, or is about to.                          *)
(***************************************************************************)
Asked == pastAudit.approvals \cup approvalsLog

AskedIds ==
  /\ stateFile.pending \subseteq Asked
  /\ \A c \in Clients : client[c] # Idle => client[c].response.id \in Asked
  /\ \A k \in DOMAIN queue : queue[k].id \in Asked
  /\ \A k \in DOMAIN batch : batch[k].id \in Asked

OpenIsAsked ==
  InLoop =>
    \A w \in WireIds :
      codex[w] = "idle" \/ Normalized[w] \in approvalsLog
        \/ \E k \in DOMAIN inbound : IsApproval(inbound[k], w)

AccountedIsOver ==
  /\ \A e \in resolutionsLog :
       \/ e.id \in pastAudit.approvals
       \/ e.id \in approvalsLog /\ pending[e.id] = NoWire
  /\ \A k \in DOMAIN sent : sent[k].response.id = Normalized[sent[k].wire]

OverIsAccounted ==
  InLoop =>
    \A r \in approvalsLog :
      pending[r] = NoWire => r \in Accounted \/ (loop = "audit" /\ r = Head(batch).id)

RecordsInv == AskedIds /\ OpenIsAsked /\ AccountedIsOver /\ OverIsAccounted

requestVars == <<pending, codex, inbound, sent, approvalsLog, decisionsLog, resolutionsLog,
                 pastAudit>>

(* Steps that open, answer and record nothing. *)
LEMMA RecordsUnchanged ==
  ASSUME RecordsInv, UNCHANGED requestVars, AskedIds', InLoop' => InLoop, loop # "audit"
  PROVE  RecordsInv'
BY DEF requestVars, RecordsInv, OpenIsAsked, AccountedIsOver, OverIsAccounted, Accounted

LEMMA AskedUnchanged ==
  ASSUME TypeInv, Known, AskedIds, Asked \subseteq Asked',
         UNCHANGED <<client, queue>>,
         \/ UNCHANGED batch
         \/ batch' = <<>>
         \/ batch # <<>> /\ batch' = Tail(batch),
         UNCHANGED stateFile \/ \E status \in Statuses : WriteState(status)
  PROVE  AskedIds'
<1>1. \A k \in DOMAIN batch' : batch'[k].id \in Asked
  <2>1. batch \in Seq(Response)
    BY DEF TypeInv, ServiceTypeOK
  <2>2. ASSUME batch # <<>>, batch' = Tail(batch), NEW k \in DOMAIN batch'
        PROVE  k + 1 \in DOMAIN batch /\ batch'[k] = batch[k + 1]
    BY <2>1, <2>2
  <2> QED
    BY <2>2 DEF AskedIds
<1>2. PendingIds \subseteq approvalsLog
  BY DEF PendingIds, PendingIn, Known, PendingUnanswered
<1>3. stateFile'.pending \subseteq Asked
  BY <1>2 DEF AskedIds, WriteState, Asked
<1> QED
  BY <1>1, <1>3 DEF AskedIds

LEMMA AskedClient ==
  ASSUME TypeInv, AskedIds, NEW c \in Clients, Ask(c) \/ Enqueue(c)
  PROVE  AskedIds'
<1>1. /\ UNCHANGED <<batch, stateFile, approvalsLog, pastAudit>>
      /\ client \in [Clients -> Process] /\ queue \in Seq(Response)
  BY DEF Ask, Enqueue, CheckStatus, CheckPending, CheckQueue, AppendResponse, ClientUnchanged,
         serviceVars, auditVars, fileVars, TypeInv, FilesTypeOK
<1>2. Asked' = Asked
  BY <1>1 DEF Asked
<1>3. \A d \in Clients : d # c => client'[d] = client[d]
  BY <1>1 DEF Ask, Enqueue, CheckStatus, CheckPending, CheckQueue, AppendResponse, Advance,
              GiveUp
<1>4. client'[c] # Idle => client'[c].response.id \in Asked
  <2>1. CASE Ask(c)
    BY <1>1, <2>1 DEF Ask, AskedIds
  <2>2. CASE Enqueue(c)
    <3>1. client'[c] # Idle => client[c] # Idle /\ client'[c].response = client[c].response
      BY <1>1, <2>2
         DEF Enqueue, CheckStatus, CheckPending, CheckQueue, AppendResponse, Advance, GiveUp,
             Idle, Process
    <3> QED
      BY <3>1 DEF AskedIds
  <2> QED
    BY <2>1, <2>2
<1>5. \A k \in DOMAIN queue' : queue'[k].id \in Asked
  <2>1. CASE UNCHANGED queue
    BY <2>1 DEF AskedIds
  <2>2. CASE AppendResponse(c)
    <3>1. client[c] # Idle /\ queue' = Append(queue, client[c].response)
      BY <2>2 DEF AppendResponse, Idle
    <3>2. \A k \in DOMAIN queue' :
            (k \in DOMAIN queue /\ queue'[k] = queue[k]) \/ queue'[k] = client[c].response
      BY <1>1, <3>1
    <3> QED
      BY <3>1, <3>2 DEF AskedIds
  <2> QED
    BY <2>1, <2>2 DEF Ask, Enqueue, CheckStatus, CheckPending, CheckQueue, fileVars
<1> QED
  BY <1>1, <1>2, <1>3, <1>4, <1>5 DEF AskedIds

(* The App Server asks for what it had not asked. *)
LEMMA OpenAsked ==
  ASSUME TypeInv, OpenIsAsked, Environment
  PROVE  OpenIsAsked'
<1>1. CodexStep /\ UNCHANGED <<loop, approvalsLog>>
  BY DEF Environment, serviceVars, auditVars
<1>2. \A w \in WireIds :
        \/ codex'[w] = "idle"
        \/ codex[w] # "idle"
        \/ \E k \in DOMAIN inbound' : IsApproval(inbound'[k], w)
  <2>1. ASSUME NEW w \in WireIds, RequestApproval(w)
        PROVE  /\ \A v \in WireIds : v # w => codex'[v] = codex[v]
               /\ \E k \in DOMAIN inbound' : IsApproval(inbound'[k], w)
    <3> DEFINE m == [method |-> "requestApproval", wire |-> w]
    <3>1. m \in Message /\ Emit(m) /\ IsApproval(m, w)
      BY <2>1 DEF RequestApproval, Message, ApprovalMsg, IsApproval
    <3>2. \E k \in DOMAIN inbound' : inbound'[k] = m
      BY <3>1, Written
    <3> QED
      BY <2>1, <3>1, <3>2 DEF RequestApproval, TypeInv, CodexTypeOK
  <2>2. ASSUME NEW i \in Items, StartItem(i) \/ ReportItem(i) \/ CompleteItem(i)
        PROVE  \A w \in WireIds : codex'[w] = codex[w] \/ codex[w] = "open"
    BY <2>2 DEF StartItem, ReportItem, CompleteItem
  <2>3. ASSUME NEW w \in WireIds, WithdrawRequest(w)
        PROVE  \A v \in WireIds : codex'[v] = codex[v] \/ codex[v] = "open"
    BY <2>3 DEF WithdrawRequest, TypeInv, CodexTypeOK
  <2>4. ASSUME TakeDecision \/ IgnoreDecision \/ CompleteTurn \/ Die
        PROVE  \A v \in WireIds : codex'[v] = codex[v] \/ codex[v] = "open"
    BY <2>4 DEF TakeDecision, IgnoreDecision, CompleteTurn, Die, turnVars, TypeInv, CodexTypeOK
  <2> QED
    BY <1>1, <2>1, <2>2, <2>3, <2>4 DEF CodexStep
<1>3. \A k \in DOMAIN inbound : k \in DOMAIN inbound' /\ inbound'[k] = inbound[k]
  <2>1. UNCHANGED inbound \/ \E m \in Message : Emit(m)
    BY <1>1, CodexWrites DEF Writes
  <2> QED
    BY <2>1, Written
<1> QED
  BY <1>1, <1>2, <1>3 DEF OpenIsAsked, InLoop

LEMMA RecordsCodex ==
  ASSUME TypeInv, RecordsInv, Environment
  PROVE  RecordsInv'
<1>1. UNCHANGED <<pending, loop, batch, queue, stateFile, client, sent, approvalsLog,
                  decisionsLog, resolutionsLog, pastAudit>>
  BY DEF Environment, brokerVars, serviceVars, fileVars, auditVars
<1>2. AskedIds' /\ AccountedIsOver' /\ OverIsAccounted'
  BY <1>1 DEF RecordsInv, AskedIds, Asked, AccountedIsOver, OverIsAccounted, Accounted, InLoop
<1> QED
  BY <1>2, OpenAsked DEF RecordsInv

(* What is answered is over, and what else was over stays so. *)
LEMMA OverAnswered ==
  ASSUME TypeInv, Known, RecordsInv, NEW y \in Response, Answers(y)
  PROVE  /\ y.id \in RequestIds
         /\ \A r \in RequestIds : r = y.id \/ pending'[r] = pending[r]
         /\ OpenIsAsked' /\ AccountedIsOver' /\ Accounted' = Accounted
<1> DEFINE r == y.id
           x == [wire |-> pending[r], response |-> y]
<1> USE NoWireAssumption
<1>1. /\ InLoop /\ InLoop'
      /\ pending[r] # NoWire
      /\ pending' = [pending EXCEPT ![r] = NoWire]
      /\ sent' = Append(sent, x)
      /\ UNCHANGED <<codex, inbound, approvalsLog, decisionsLog, resolutionsLog, pastAudit>>
  BY DEF Answers, SendDecision, SendLine, turnVars, auditVars
<1>2. /\ pending \in [RequestIds -> WireIds \cup {NoWire}]
      /\ sent \in Seq([wire : WireIds, response : Response])
      /\ resolutionsLog \subseteq ResolutionRecord
  BY DEF TypeInv, BrokerTypeOK, AuditTypeOK
<1>3. r \in RequestIds
  BY DEF Response
<1>4. pending[r] \in WireIds /\ Normalized[pending[r]] = r
  BY <1>1, <1>2, <1>3 DEF Known, PendingUnanswered
<1>5. OpenIsAsked' /\ Accounted' = Accounted
  BY <1>1 DEF RecordsInv, OpenIsAsked, Accounted
<1>6. AccountedIsOver'
  <2>1. \A k \in DOMAIN sent' :
          (k \in DOMAIN sent /\ sent'[k] = sent[k]) \/ sent'[k] = x
    BY <1>1, <1>2, <1>3, <1>4
  <2>2. \A k \in DOMAIN sent' : sent'[k].response.id = Normalized[sent'[k].wire]
    BY <1>4, <2>1 DEF RecordsInv, AccountedIsOver
  <2>3. \A e \in resolutionsLog : e.id \in RequestIds
    BY <1>2 DEF ResolutionRecord
  <2> QED
    BY <1>1, <1>2, <2>2, <2>3 DEF RecordsInv, AccountedIsOver
<1> QED
  BY <1>1, <1>2, <1>3, <1>5, <1>6

LEMMA RecordsAnswered ==
  ASSUME TypeInv, Known, RecordsInv, AnswerQueued
  PROVE  RecordsInv'
<1> DEFINE r == Head(batch).id
<1>1. /\ loop' = "audit" /\ loop = "drain"
      /\ UNCHANGED <<batch, queue, stateFile, client, auditVars>>
  BY DEF AnswerQueued, fileVars
<1>2. /\ r \in RequestIds
      /\ \A q \in RequestIds : q = r \/ pending'[q] = pending[q]
      /\ OpenIsAsked' /\ AccountedIsOver' /\ Accounted' = Accounted
  BY QueuedAnswers, OverAnswered
<1>3. AskedIds'
  BY <1>1 DEF RecordsInv, AskedIds, Asked, auditVars
<1>4. approvalsLog' = approvalsLog /\ approvalsLog \subseteq RequestIds
  BY <1>1 DEF TypeInv, AuditTypeOK, auditVars
<1>5. OverIsAccounted'
  BY <1>1, <1>2, <1>4 DEF RecordsInv, OverIsAccounted, InLoop, LoopSteps
<1> QED
  BY <1>2, <1>3, <1>5 DEF RecordsInv

(* The record of a decision accounts for its id. *)
LEMMA AccountedGrows ==
  ASSUME TypeInv, NEW y \in Response, UNCHANGED resolutionsLog,
         decisionsLog' = Append(decisionsLog, [id |-> y.id, decision |-> y.decision])
  PROVE  Accounted \subseteq Accounted' /\ y.id \in Accounted'
<1>1. decisionsLog \in Seq([id : RequestIds, decision : Decisions])
  BY DEF TypeInv, AuditTypeOK
<1>2. [id |-> y.id, decision |-> y.decision] \in [id : RequestIds, decision : Decisions]
  BY DEF Response
<1>3. /\ \A k \in DOMAIN decisionsLog :
           k \in DOMAIN decisionsLog' /\ decisionsLog'[k] = decisionsLog[k]
      /\ \E k \in DOMAIN decisionsLog' : decisionsLog'[k].id = y.id
  BY <1>1, <1>2
<1> QED
  BY <1>3 DEF Accounted

LEMMA RecordsRecorded ==
  ASSUME TypeInv, Known, RecordsInv, RecordDecision
  PROVE  RecordsInv'
<1>1. /\ batch # <<>> /\ batch' = Tail(batch) /\ loop' = "drain" /\ loop = "audit"
      /\ decisionsLog' =
           Append(decisionsLog, [id |-> Head(batch).id, decision |-> Head(batch).decision])
      /\ UNCHANGED <<pending, codex, inbound, queue, stateFile, client, approvalsLog, sent,
                     resolutionsLog, pastAudit>>
  BY DEF RecordDecision, brokerVars, codexVars, turnVars, pipeVars, fileVars, TypeInv,
         ServiceTypeOK
<1>2. AskedIds'
  BY <1>1, AskedUnchanged DEF RecordsInv, Asked
<1>3. OpenIsAsked' /\ AccountedIsOver'
  BY <1>1 DEF RecordsInv, OpenIsAsked, AccountedIsOver, InLoop, LoopSteps
<1>4. Accounted \subseteq Accounted' /\ Head(batch).id \in Accounted'
  <2>1. Head(batch) \in Response
    BY <1>1, HeadTailProperties DEF TypeInv, ServiceTypeOK
  <2> QED
    BY <1>1, <2>1, AccountedGrows
<1>5. OverIsAccounted'
  BY <1>1, <1>4 DEF RecordsInv, OverIsAccounted, InLoop, LoopSteps
<1> QED
  BY <1>2, <1>3, <1>5 DEF RecordsInv

LEMMA RecordsRejected ==
  ASSUME TypeInv, Known, RecordsInv, RejectQueued
  PROVE  RecordsInv'
<1> DEFINE r == Head(batch).id
<1>1. /\ batch # <<>> /\ batch' = Tail(batch) /\ loop = "drain" /\ loop' = loop
      /\ r \notin PendingIds
      /\ resolutionsLog' = resolutionsLog \cup {Resolution(r, "response_rejected", TRUE)}
      /\ UNCHANGED <<pending, codex, inbound, queue, stateFile, client, approvalsLog, sent,
                     decisionsLog, pastAudit>>
  BY DEF RejectQueued, brokerVars, codexVars, turnVars, pipeVars, fileVars
<1>2. AskedIds'
  BY <1>1, AskedUnchanged DEF RecordsInv, Asked
<1>3. r \in RequestIds /\ r \in Asked
  <2>1. Head(batch) \in Response /\ 1 \in DOMAIN batch /\ Head(batch) = batch[1]
    BY <1>1 DEF TypeInv, ServiceTypeOK
  <2> QED
    BY <2>1 DEF RecordsInv, AskedIds, Response
<1>4. pending[r] = NoWire
  BY <1>1, <1>3 DEF PendingIds, PendingIn
<1>5. OpenIsAsked' /\ AccountedIsOver'
  BY <1>1, <1>3, <1>4
     DEF RecordsInv, OpenIsAsked, AccountedIsOver, Resolution, Asked, InLoop, LoopSteps
<1>6. Accounted \subseteq Accounted'
  BY <1>1 DEF Accounted
<1>7. OverIsAccounted'
  BY <1>1, <1>6 DEF RecordsInv, OverIsAccounted, InLoop
<1> QED
  BY <1>2, <1>5, <1>7 DEF RecordsInv

(* A message is recorded as it is handled. *)
LEMMA RecordsRead ==
  ASSUME TypeInv, Known, PipeInv, RecordsInv, ReadMessage
  PROVE  RecordsInv'
<1> DEFINE m == Head(inbound)
<1> USE NormalizedAssumption, NoWireAssumption
<1>1. /\ ReadLine /\ HandleMessage(m) /\ InLoop /\ loop = "read" /\ loop' = "publish"
      /\ approvalsLog' = approvalsLog \cup ApprovalsOf(m)
      /\ resolutionsLog' = resolutionsLog \cup ResolutionsOf(m)
      /\ UNCHANGED <<codex, batch, queue, stateFile, client, sent, decisionsLog, pastAudit>>
  BY DEF ReadMessage, turnVars, fileVars, InLoop, LoopSteps
<1>2. /\ m \in Message /\ m = inbound[1] /\ 1 \in DOMAIN inbound
      /\ \A k \in DOMAIN inbound :
           k = 1 \/ (k - 1 \in DOMAIN inbound' /\ inbound'[k - 1] = inbound[k])
      /\ \A k \in DOMAIN inbound : k \in Nat \ {0}
  BY <1>1, Taken
<1>3. AskedIds'
  BY <1>1, AskedUnchanged DEF RecordsInv, Asked
<1>4. ASSUME NEW w \in WireIds, IsApproval(m, w)
      PROVE  ApprovalsOf(m) = {Normalized[w]}
  BY <1>4 DEF ApprovalsOf, IsApproval
<1>5. OpenIsAsked'
  BY <1>1, <1>2, <1>4 DEF RecordsInv, OpenIsAsked
<1>6. ASSUME NEW e \in ResolutionsOf(m)
      PROVE  e.id \in approvalsLog /\ pending'[e.id] = NoWire
  <2>1. CASE m.method = "serverRequest/resolved"
    <3>1. m.wire \in WireIds
      BY <1>2, <2>1 DEF Message, ApprovalMsg, ResolvedMsg, StartedMsg, CompletedMsg, TurnMsg
    <3>2. e.id = Normalized[m.wire] /\ IsResolved(m, m.wire)
      BY <1>6, <2>1 DEF ResolutionsOf, Resolution, IsResolved
    <3>3. codex[m.wire] = "closed"
      BY <1>2, <3>1, <3>2 DEF PipeInv, ClosedIsClosed
    <3>4. \A k \in DOMAIN inbound : ~IsApproval(inbound[k], m.wire)
      <4> SUFFICES ASSUME NEW k \in DOMAIN inbound, IsApproval(inbound[k], m.wire)
                   PROVE  FALSE
        OBVIOUS
      <4>1. 1 > k
        BY <1>2, <3>1, <3>2 DEF PipeInv, AskedBeforeClosed
      <4> QED
        BY <1>2, <4>1
    <3>5. Normalized[m.wire] \in approvalsLog
      BY <1>1, <3>1, <3>3, <3>4 DEF RecordsInv, OpenIsAsked
    <3>6. pending' = [pending EXCEPT ![Normalized[m.wire]] = NoWire]
      BY <1>1, <2>1 DEF HandleMessage, HandleApproval, HandleItemStarted, HandleItemCompleted,
                        HandleResolved, HandleTurnCompleted
    <3> QED
      BY <3>1, <3>2, <3>5, <3>6 DEF TypeInv, BrokerTypeOK
  <2>2. CASE m.method = "item/completed" /\ m.status # "inProgress"
    <3>1. PICK r \in PendingOf(m.item) : e = Resolution(r, "item_completed", FALSE)
      BY <1>6, <2>2 DEF ResolutionsOf
    <3>2. r \in RequestIds /\ r \in approvalsLog
      BY <3>1 DEF PendingOf, PendingIds, PendingIn, Known, PendingUnanswered
    <3>3. CleanupForItem(m.item)
      BY <1>1, <2>2 DEF HandleMessage, HandleApproval, HandleItemStarted, HandleItemCompleted,
                        HandleResolved, HandleTurnCompleted
    <3>4. pending'[r] = NoWire
      BY <3>1, <3>2, <3>3 DEF CleanupForItem
    <3> QED
      BY <3>1, <3>2, <3>4 DEF Resolution
  <2> QED
    BY <1>6, <2>1, <2>2 DEF ResolutionsOf
<1>7. ASSUME NEW r \in RequestIds, r \in approvalsLog, pending[r] = NoWire
      PROVE  pending'[r] = NoWire
  <2>1. \A w \in WireIds : IsApproval(m, w) => Normalized[w] # r
    BY <1>2, <1>7 DEF Known, UnreadUnknown
  <2> QED
    BY <1>1, <1>2, <1>7, <2>1, PendingAfter
<1>8. AccountedIsOver'
  <2>1. \A e \in resolutionsLog : e.id \in RequestIds
    BY DEF TypeInv, AuditTypeOK, ResolutionRecord
  <2>2. ASSUME NEW e \in resolutionsLog'
        PROVE  \/ e.id \in pastAudit.approvals
               \/ e.id \in approvalsLog' /\ pending'[e.id] = NoWire
    <3>1. CASE e \in ResolutionsOf(m)
      BY <1>1, <1>6, <3>1
    <3>2. CASE e \in resolutionsLog
      BY <1>1, <1>7, <2>1, <3>2 DEF RecordsInv, AccountedIsOver
    <3> QED
      BY <1>1, <3>1, <3>2
  <2> QED
    BY <1>1, <2>2 DEF RecordsInv, AccountedIsOver
<1>9. ASSUME NEW r \in RequestIds, pending[r] # NoWire, Closes(m, pending[r]), pending'[r] = NoWire
      PROVE  \E e \in ResolutionsOf(m) : e.id = r
  <2>1. pending[r] \in WireIds /\ Normalized[pending[r]] = r
    BY <1>9 DEF TypeInv, BrokerTypeOK, Known, PendingUnanswered
  <2>2. CASE IsResolved(m, pending[r])
    BY <2>1, <2>2 DEF IsResolved, ResolutionsOf, Resolution
  <2>3. CASE IsCompleted(m, ItemOf[pending[r]])
    <3>1. r \in PendingOf(m.item)
      BY <1>9, <2>3 DEF IsCompleted, PendingOf, PendingIds, PendingIn
    <3>2. ResolutionsOf(m) = {Resolution(q, "item_completed", FALSE) : q \in PendingOf(m.item)}
      BY <2>3 DEF IsCompleted, ResolutionsOf
    <3>3. Resolution(r, "item_completed", FALSE).id = r
      BY DEF Resolution
    <3> QED
      BY <3>1, <3>2, <3>3
  <2> QED
    BY <1>9, <2>2, <2>3 DEF Closes
<1>10. \A e \in resolutionsLog' : e.id \in Accounted'
  BY DEF Accounted
<1>11. Accounted \subseteq Accounted'
  BY <1>1 DEF Accounted
<1>12. OverIsAccounted'
  <2> SUFFICES ASSUME NEW r \in approvalsLog', pending'[r] = NoWire
               PROVE  r \in Accounted'
    BY DEF OverIsAccounted
  <2>1. r \in RequestIds
    BY <1>1, <1>2, HandledPending DEF TypeInv, AuditTypeOK
  <2>2. CASE pending[r] # NoWire
    <3>1. Closes(m, pending[r])
      BY <1>1, <1>2, <2>1, <2>2, PendingAfter
    <3>2. \E e \in ResolutionsOf(m) : e.id = r
      BY <1>9, <2>1, <2>2, <3>1
    <3> QED
      BY <1>1, <1>10, <3>2
  <2>3. CASE pending[r] = NoWire
    <3>1. CASE r \in approvalsLog
      BY <1>1, <1>11, <2>3, <3>1 DEF RecordsInv, OverIsAccounted
    <3>2. CASE r \in ApprovalsOf(m)
      <4>1. \E w \in WireIds : IsApproval(m, w) /\ Normalized[w] = r
        BY <1>1, <1>2, <3>2, HandledPending DEF ApprovalsOf, IsApproval, TypeInv
      <4>2. pending'[r] # NoWire
        BY <1>1, <1>2, <4>1, PendingOpened
      <4> QED
        BY <4>2
    <3> QED
      BY <1>1, <3>1, <3>2
  <2> QED
    BY <2>2, <2>3
<1> QED
  BY <1>3, <1>5, <1>8, <1>12 DEF RecordsInv

(* The loop ends with what it has recorded. *)
LEMMA RecordsClosed ==
  ASSUME TypeInv, AccountedIsOver, AskedIds', ~InLoop',
         UNCHANGED <<sent, approvalsLog, resolutionsLog, pastAudit>>,
         \A r \in RequestIds : pending'[r] = pending[r] \/ pending'[r] = NoWire
  PROVE  RecordsInv'
<1>1. \A e \in resolutionsLog : e.id \in RequestIds
  BY DEF TypeInv, AuditTypeOK, ResolutionRecord
<1>2. AccountedIsOver'
  BY <1>1 DEF AccountedIsOver
<1> QED
  BY <1>2 DEF RecordsInv, OpenIsAsked, OverIsAccounted

LEMMA RecordsStep ==
  ASSUME TypeInv, Phases, Known, PipeInv, BatchIsTail, RecordsInv, [Next]_vars
  PROVE  RecordsInv'
<1> USE DEF InLoop, LoopSteps
<1>1. CASE Start
  <2>1. Asked' = Asked
    BY <1>1 DEF Start, Asked
  <2> QED
    BY <1>1, <2>1
       DEF Start, RecordsInv, AskedIds, OpenIsAsked, AccountedIsOver, OverIsAccounted
<1>2. CASE WriteStarting
  <2>1. AskedIds'
    BY <1>2, AskedUnchanged DEF WriteStarting, RecordsInv, Statuses, auditVars, Asked
  <2> QED
    BY <1>2, <2>1, RecordsUnchanged
       DEF WriteStarting, brokerVars, codexVars, turnVars, pipeVars, auditVars, requestVars
<1>3. CASE Handshake
  <2>1. AskedIds'
    BY <1>3, AskedUnchanged DEF Handshake, RecordsInv, Statuses, auditVars, Asked
  <2> QED
    BY <1>3, <2>1
       DEF Handshake, Phases, NoChild, brokerVars, auditVars, RecordsInv, OpenIsAsked,
           AccountedIsOver, OverIsAccounted
<1>4. CASE HandshakeFails \/ Timeout
  <2>1. AskedIds'
    BY <1>4, AskedUnchanged DEF HandshakeFails, Timeout, RecordsInv, auditVars, fileVars, Asked
  <2> QED
    BY <1>4, <2>1, RecordsClosed DEF RecordsInv, HandshakeFails, Timeout, brokerVars, auditVars
<1>5. CASE PublishAndFinish
  <2>1. AskedIds'
    BY <1>5, AskedUnchanged
       DEF PublishAndFinish, RecordsInv, Statuses, LoopStatus, auditVars, Asked
  <2> QED
    BY <1>5, <2>1, RecordsClosed DEF RecordsInv, PublishAndFinish, brokerVars, auditVars
<1>6. CASE WriteFinal \/ WriteError \/ Kill
  <2>1. AskedIds'
    BY <1>6, AskedUnchanged
       DEF WriteFinal, WriteError, Kill, EndProcess, RecordsInv, Statuses, auditVars, Asked
  <2> QED
    BY <1>6, <2>1, RecordsClosed
       DEF RecordsInv, WriteFinal, WriteError, Kill, EndProcess, ResetBroker, auditVars
<1>7. CASE AnswerFails
  <2>1. AskedIds'
    BY <1>7, AskedUnchanged DEF AnswerFails, RecordsInv, auditVars, fileVars, Asked
  <2> QED
    BY <1>7, <2>1, RecordsClosed
       DEF RecordsInv, AnswerFails, SendDecision, auditVars, TypeInv, BrokerTypeOK
<1>8. CASE LoadResponses
  <2>1. /\ UNCHANGED <<client, queue, stateFile, approvalsLog, pastAudit>>
        /\ batch' = SubSeq(queue, cursor + 1, Len(queue))
    BY <1>8 DEF LoadResponses, fileVars, auditVars
  <2>2. \A k \in DOMAIN batch' : \E j \in DOMAIN queue : batch'[k] = queue[j]
    <3>1. queue \in Seq(Response) /\ cursor \in Nat
      BY DEF TypeInv, ServiceTypeOK, FilesTypeOK
    <3>2. cursor <= Len(queue)
      BY DEF BatchIsTail
    <3>3. /\ Len(batch') = Len(queue) - cursor
          /\ \A k \in 1..Len(batch') : batch'[k] = queue[cursor + k]
          /\ DOMAIN batch' = 1..Len(batch')
      BY <2>1, <3>1, <3>2, SubSeqProperties
    <3> QED
      BY <3>1, <3>2, <3>3
  <2>3. AskedIds'
    BY <2>1, <2>2 DEF RecordsInv, AskedIds, Asked
  <2> QED
    BY <1>8, <2>3, RecordsUnchanged
       DEF LoadResponses, brokerVars, codexVars, turnVars, pipeVars, auditVars, requestVars
<1>9. CASE DrainDone \/ ReadTimesOut \/ PublishAndContinue
  <2>1. AskedIds'
    BY <1>9, AskedUnchanged
       DEF DrainDone, ReadTimesOut, PublishAndContinue, RecordsInv, Statuses, LoopStatus,
           auditVars, fileVars, Asked
  <2> QED
    BY <1>9, <2>1, RecordsUnchanged
       DEF DrainDone, ReadTimesOut, ReadNothing, PublishAndContinue, brokerVars, codexVars,
           turnVars, pipeVars, auditVars, requestVars
<1>10. CASE AnswerQueued \/ RecordDecision \/ RejectQueued \/ ReadMessage
  BY <1>10, RecordsAnswered, RecordsRecorded, RecordsRejected, RecordsRead
<1>11. ASSUME NEW c \in Clients, Ask(c) \/ Enqueue(c)
       PROVE  RecordsInv'
  <2>1. UNCHANGED requestVars /\ UNCHANGED <<loop, batch>> /\ AskedIds'
    BY <1>11, AskedClient
       DEF RecordsInv, Ask, Enqueue, CheckStatus, CheckPending, CheckQueue, AppendResponse,
           ClientUnchanged, brokerVars, codexVars, turnVars, pipeVars, serviceVars, auditVars,
           requestVars
  <2> QED
    BY <2>1
       DEF requestVars, RecordsInv, OpenIsAsked, AccountedIsOver, OverIsAccounted, Accounted
<1>12. CASE Environment
  BY <1>12, RecordsCodex
<1>13. CASE UNCHANGED vars
  <2>1. UNCHANGED requestVars /\ UNCHANGED <<loop, batch, queue, client, stateFile>>
    BY <1>13 DEF vars, brokerVars, codexVars, turnVars, pipeVars, serviceVars, auditVars,
                 fileVars, requestVars
  <2> QED
    BY <2>1
       DEF requestVars, RecordsInv, AskedIds, Asked, OpenIsAsked, AccountedIsOver,
           OverIsAccounted, Accounted
<1> QED
  BY <1>1, <1>2, <1>3, <1>4, <1>5, <1>6, <1>7, <1>8, <1>9, <1>10, <1>11, <1>12, <1>13
     DEF Next, ServiceStep

(* A record of a decision is that of an answer. *)
LEMMA RecordedWasSent ==
  ASSUME TypeInv, AuditMatchesAnswers, NEW k \in DOMAIN decisionsLog
  PROVE  /\ k \in DOMAIN sent /\ sent[k].wire \in WireIds
         /\ decisionsLog[k].id = sent[k].response.id
<1>1. /\ sent \in Seq([wire : WireIds, response : Response])
      /\ decisionsLog \in Seq([id : RequestIds, decision : Decisions])
  BY DEF TypeInv, AuditTypeOK
<1>2. Len(decisionsLog) \in Nat /\ Len(sent) \in Nat
  BY <1>1
<1>3. Len(decisionsLog) <= Len(sent)
  <2>1. Len(sent) - Len(decisionsLog) \in {0, 1}
    BY DEF AuditMatchesAnswers
  <2> QED
    BY <1>2, <2>1
<1>4. k \in 1..Len(sent)
  <2>1. k \in 1..Len(decisionsLog)
    BY <1>1
  <2> QED
    BY <1>2, <1>3, <2>1
<1>5. k \in DOMAIN sent /\ sent[k] \in [wire : WireIds, response : Response]
  BY <1>1, <1>4, LenProperties, ElementOfSeq
<1>6. decisionsLog[k] = [id |-> sent[k].response.id, decision |-> sent[k].response.decision]
  BY DEF AuditMatchesAnswers
<1> QED
  BY <1>5, <1>6

LEMMA RecordsList ==
  ASSUME TypeInv, Known, AuditInv, RecordsInv
  PROVE  AuditListsPending
<1> SUFFICES ASSUME loop = "top", NEW r \in RequestIds,
                    r \notin pastAudit.approvals, r \notin pastAudit.accounted
             PROVE  r \in UnresolvedIds <=> r \in PendingIds
  BY DEF AuditListsPending
<1>1. r \in UnresolvedIds <=> r \in approvalsLog /\ r \notin Accounted
  BY DEF UnresolvedIds
<1>2. ASSUME r \in PendingIds
      PROVE  r \in approvalsLog /\ r \notin Accounted
  <2>1. /\ pending[r] # NoWire /\ pending[r] \in WireIds
        /\ r \in approvalsLog /\ Normalized[pending[r]] = r /\ ~Answered(pending[r])
    BY <1>2 DEF PendingIds, PendingIn, Known, PendingUnanswered, TypeInv, BrokerTypeOK
  <2>2. \A e \in resolutionsLog : e.id # r
    BY <2>1 DEF RecordsInv, AccountedIsOver
  <2>3. ASSUME NEW k \in DOMAIN decisionsLog, decisionsLog[k].id = r
        PROVE  FALSE
    <3>1. /\ k \in DOMAIN sent /\ sent[k].wire \in WireIds
          /\ decisionsLog[k].id = sent[k].response.id
      BY <2>3, RecordedWasSent DEF AuditInv
    <3>2. Normalized[sent[k].wire] = r
      BY <2>3, <3>1 DEF RecordsInv, AccountedIsOver
    <3>3. sent[k].wire = pending[r]
      BY <2>1, <3>1, <3>2, NormalizedAssumption
    <3> QED
      BY <2>1, <3>1, <3>3 DEF Answered
  <2> QED
    BY <2>1, <2>2, <2>3 DEF Accounted
<1>3. ASSUME r \in approvalsLog, r \notin Accounted
      PROVE  r \in PendingIds
  BY <1>3 DEF RecordsInv, OverIsAccounted, InLoop, LoopSteps, PendingIds, PendingIn
<1> QED
  BY <1>1, <1>2, <1>3

(***************************************************************************)
(* At the top of the loop the audit files alone list exactly what is       *)
(* pending, of the ids no earlier run has left in them.                    *)
(***************************************************************************)
THEOREM AuditComplete == Spec => []AuditListsPending
<1>1. Init => RecordsInv /\ AuditInv /\ QueueInv
  BY DEF Init, RecordsInv, AskedIds, OpenIsAsked, AccountedIsOver, OverIsAccounted, InLoop,
         LoopSteps, AuditInv, AuditMatchesAnswers, QueueInv, BatchIsTail, NoResponseDropped
<1>2. AgreeInv /\ QueueInv /\ AuditInv /\ RecordsInv /\ [Next]_vars
        => RecordsInv' /\ AuditInv' /\ QueueInv'
  BY RecordsStep, AuditStep, QueueStep DEF AgreeInv, IInv, QueueInv
<1>3. AgreeInv /\ AuditInv /\ RecordsInv => AuditListsPending
  BY RecordsList DEF AgreeInv, IInv
<1> QED
  BY <1>1, <1>2, <1>3, AgreeInductive, PTL DEF Spec

-----------------------------------------------------------------------------
(***************************************************************************)
(* The broker service implements ApprovalLedger: each step of the service, *)
(* of its clients and of the App Server opens one request, decides one,    *)
(* closes some, begins a new ledger or leaves the ledger as it is.         *)
(***************************************************************************)

USE NormalizedAssumption, NoWireAssumption

SentRecord == [wire : WireIds, response : Response]

(* The text of a request id names one wire id: an id is answered when its  *)
(* wire id is, and a pending id is not.                                    *)
LEMMA AnsweredIdIsAnswered ==
  ASSUME TypeInv, NEW w \in WireIds
  PROVE  AnsweredId(Normalized[w]) <=> Answered(w)
<1>1. \A k \in DOMAIN sent : sent[k].wire \in WireIds
  <2>1. sent \in Seq(SentRecord)
    BY DEF TypeInv, AuditTypeOK, SentRecord
  <2>2. \A k \in DOMAIN sent : sent[k] \in SentRecord
    BY <2>1
  <2> QED
    BY <2>2 DEF SentRecord
<1> QED
  BY <1>1 DEF AnsweredId, Answered

LEMMA PendingNotAnswered ==
  ASSUME TypeInv, Known, NEW r \in RequestIds, pending[r] # NoWire
  PROVE  ~AnsweredId(r) /\ r \in approvalsLog
<1>1. pending[r] \in WireIds
  BY DEF TypeInv, BrokerTypeOK
<1>2. Normalized[pending[r]] = r /\ ~Answered(pending[r]) /\ r \in approvalsLog
  BY DEF Known, PendingUnanswered
<1> QED
  BY <1>1, <1>2, AnsweredIdIsAnswered

(* The status of one request. *)
StatusOf(r) ==
  CASE pending[r] # NoWire -> "open"
    [] pending[r] = NoWire /\ AnsweredId(r) -> "decided"
    [] pending[r] = NoWire /\ ~AnsweredId(r) /\ r \in approvalsLog -> "closed"
    [] OTHER -> "none"

LEMMA StatusCases ==
  ASSUME NEW r \in RequestIds
  PROVE  /\ LedgerStatus[r] = StatusOf(r)
         /\ pending[r] # NoWire => StatusOf(r) = "open"
         /\ pending[r] = NoWire /\ AnsweredId(r) => StatusOf(r) = "decided"
         /\ pending[r] = NoWire /\ ~AnsweredId(r) /\ r \in approvalsLog => StatusOf(r) = "closed"
         /\ pending[r] = NoWire /\ ~AnsweredId(r) /\ r \notin approvalsLog => StatusOf(r) = "none"
  BY DEF LedgerStatus, StatusOf

LEMMA StatusCasesNext ==
  ASSUME NEW r \in RequestIds
  PROVE  /\ LedgerStatus'[r] = StatusOf(r)'
         /\ pending'[r] # NoWire => StatusOf(r)' = "open"
         /\ pending'[r] = NoWire /\ AnsweredId(r)' => StatusOf(r)' = "decided"
         /\ pending'[r] = NoWire /\ ~AnsweredId(r)' /\ r \in approvalsLog'
              => StatusOf(r)' = "closed"
         /\ pending'[r] = NoWire /\ ~AnsweredId(r)' /\ r \notin approvalsLog'
              => StatusOf(r)' = "none"
  BY DEF LedgerStatus, StatusOf

(* The ledger's functions are given by their values. *)
LEMMA StatusExcept ==
  ASSUME NEW r \in RequestIds, NEW v, LedgerStatus'[r] = v,
         \A q \in RequestIds : q # r => LedgerStatus'[q] = LedgerStatus[q]
  PROVE  LedgerStatus' = [LedgerStatus EXCEPT ![r] = v]
<1>1. LedgerStatus' = [q \in RequestIds |-> LedgerStatus'[q]]
  BY DEF LedgerStatus
<1>2. LedgerStatus = [q \in RequestIds |-> LedgerStatus[q]]
  BY DEF LedgerStatus
<1> QED
  BY <1>1, <1>2

LEMMA ChoiceExcept ==
  ASSUME NEW r \in RequestIds, NEW v, LedgerChoice'[r] = v,
         \A q \in RequestIds : q # r => LedgerChoice'[q] = LedgerChoice[q]
  PROVE  LedgerChoice' = [LedgerChoice EXCEPT ![r] = v]
<1>1. LedgerChoice' = [q \in RequestIds |-> LedgerChoice'[q]]
  BY DEF LedgerChoice
<1>2. LedgerChoice = [q \in RequestIds |-> LedgerChoice[q]]
  BY DEF LedgerChoice
<1> QED
  BY <1>1, <1>2

(* A step that keeps pending, the answers and the approvals file. *)
LEMMA LedgerUnchanged ==
  ASSUME UNCHANGED <<pending, sent, approvalsLog>>
  PROVE  UNCHANGED <<LedgerStatus, LedgerChoice>>
  BY DEF LedgerStatus, LedgerChoice, AnsweredId

LEMMA ChoiceUnchanged ==
  ASSUME UNCHANGED sent
  PROVE  LedgerChoice' = LedgerChoice
  BY DEF LedgerChoice, AnsweredId

(* A step that only takes requests out of pending closes them. *)
LEMMA LedgerCloses ==
  ASSUME TypeInv, Known, UNCHANGED <<approvalsLog, sent>>,
         \A r \in RequestIds : pending'[r] = pending[r] \/ pending'[r] = NoWire
  PROVE  \E S \in SUBSET RequestIds : Ledger!Close(S)
<1> DEFINE S == {r \in RequestIds : pending[r] # NoWire /\ pending'[r] = NoWire}
<1>1. \A r : AnsweredId(r)' <=> AnsweredId(r)
  BY DEF AnsweredId
<1>2. ASSUME NEW r \in S
      PROVE  LedgerStatus[r] = "open" /\ LedgerStatus'[r] = "closed"
  <2>1. ~AnsweredId(r) /\ r \in approvalsLog
    BY PendingNotAnswered
  <2> QED
    BY <1>1, <2>1, StatusCases, StatusCasesNext
<1>3. ASSUME NEW r \in RequestIds, r \notin S
      PROVE  LedgerStatus'[r] = LedgerStatus[r]
  <2>1. pending'[r] = pending[r]
    BY <1>3
  <2> QED
    BY <1>1, <2>1 DEF LedgerStatus
<1>4. LedgerStatus' = [r \in RequestIds |-> IF r \in S THEN "closed" ELSE LedgerStatus[r]]
  <2>1. LedgerStatus' = [r \in RequestIds |-> LedgerStatus'[r]]
    BY DEF LedgerStatus
  <2> QED
    BY <1>2, <1>3, <2>1
<1>5. LedgerChoice' = LedgerChoice
  BY ChoiceUnchanged
<1> QED
  BY <1>2, <1>4, <1>5 DEF Ledger!Close

(* Reading an approval request opens it. *)
LEMMA LedgerOpens ==
  ASSUME TypeInv, Known, ReadMessage, Head(inbound).method = "requestApproval"
  PROVE  \E r \in RequestIds : Ledger!Open(r)
<1> DEFINE m == Head(inbound)
           w == m.wire
           r == Normalized[w]
<1>1. /\ inbound \in Seq(Message) /\ inbound # <<>>
      /\ UNCHANGED sent
      /\ approvalsLog' = approvalsLog \cup ApprovalsOf(m)
      /\ HandleMessage(m)
  BY DEF ReadMessage, ReadLine, TypeInv, CodexTypeOK, PipeTypeOK
<1>2. m \in Message /\ m = inbound[1] /\ 1 \in DOMAIN inbound
  BY <1>1
<1>3. /\ w \in WireIds
      /\ approvalsLog' = approvalsLog \cup {r}
      /\ pending' = [pending EXCEPT ![r] = w]
  BY <1>1, <1>2, HandledPending DEF TypeInv
<1>4. r \in RequestIds /\ w # NoWire
  BY <1>3
<1>5. ~Answered(w) /\ r \notin approvalsLog
  BY <1>2, <1>3 DEF Known, UnreadUnknown, IsApproval
<1>6. ~AnsweredId(r) /\ pending[r] = NoWire
  BY <1>3, <1>4, <1>5, AnsweredIdIsAnswered, PendingNotAnswered
<1>7. \A q : AnsweredId(q)' <=> AnsweredId(q)
  BY <1>1 DEF AnsweredId
<1>8. LedgerStatus[r] = "none"
  BY <1>4, <1>5, <1>6, StatusCases
<1>9. pending'[r] = w /\ \A q \in RequestIds : q # r => pending'[q] = pending[q]
  BY <1>3, <1>4 DEF TypeInv, BrokerTypeOK
<1>10. LedgerStatus'[r] = "open"
  BY <1>4, <1>9, StatusCasesNext
<1>11. \A q \in RequestIds : q # r => LedgerStatus'[q] = LedgerStatus[q]
  BY <1>3, <1>7, <1>9 DEF LedgerStatus
<1>12. LedgerStatus' = [LedgerStatus EXCEPT ![r] = "open"]
  BY <1>4, <1>10, <1>11, StatusExcept
<1>13. LedgerChoice' = LedgerChoice
  BY <1>1, ChoiceUnchanged
<1> QED
  BY <1>4, <1>8, <1>12, <1>13 DEF Ledger!Open

(* The decision recorded for an id is the one answer with that id. *)
LEMMA OnlyChoice ==
  ASSUME NEW s, NEW r, NEW k \in DOMAIN s,
         Normalized[s[k].wire] = r,
         \A j \in DOMAIN s : Normalized[s[j].wire] = r => j = k
  PROVE  (CHOOSE j \in DOMAIN s : Normalized[s[j].wire] = r) = k
  OBVIOUS

(* Sending the decision for a pending request decides it. *)
LEMMA LedgerDecides ==
  ASSUME TypeInv, Known, NEW x \in Response, Answers(x)
  PROVE  \E r \in RequestIds, d \in Decisions : Ledger!Decide(r, d)
<1>2. PICK r \in RequestIds : r = x.id
  BY DEF Response
<1>3. PICK w \in WireIds : w = pending[r] /\ w # NoWire /\ Normalized[w] = r
  BY <1>2 DEF Answers, SendDecision, TypeInv, BrokerTypeOK, Known, PendingUnanswered
<1> DEFINE n == Len(sent) + 1
<1>4. /\ pending' = [pending EXCEPT ![r] = NoWire]
      /\ sent' = Append(sent, [wire |-> w, response |-> x])
      /\ UNCHANGED approvalsLog
  BY <1>2, <1>3 DEF Answers, SendDecision, auditVars
<1>5. ~AnsweredId(r)
  BY <1>2, <1>3, PendingNotAnswered
<1>6. sent \in Seq(SentRecord)
  BY DEF TypeInv, AuditTypeOK, SentRecord
<1>7. /\ DOMAIN sent = 1..Len(sent) /\ Len(sent) \in Nat
      /\ DOMAIN sent' = 1..n
      /\ sent'[n] = [wire |-> w, response |-> x]
      /\ \A k \in DOMAIN sent : sent'[k] = sent[k] /\ sent[k].wire \in WireIds
  <2>1. \A k \in DOMAIN sent : sent[k] \in SentRecord
    BY <1>6
  <2>2. \A k \in DOMAIN sent : sent[k].wire \in WireIds
    BY <2>1 DEF SentRecord
  <2> QED
    BY <1>4, <1>6, <2>2
<1>8. /\ n \in DOMAIN sent' /\ n \notin DOMAIN sent
      /\ \A k \in DOMAIN sent' : k = n \/ k \in DOMAIN sent
      /\ \A k \in DOMAIN sent : k \in DOMAIN sent'
  BY <1>7
<1>9. Normalized[sent'[n].wire] = r /\ sent'[n].response.decision = x.decision
  BY <1>3, <1>7
<1>10. AnsweredId(r)'
  <2>1. \E k \in DOMAIN sent' : Normalized[sent'[k].wire] = r
    BY <1>8, <1>9
  <2> QED
    BY <2>1 DEF AnsweredId
<1>11. \A q \in RequestIds : q # r => (AnsweredId(q)' <=> AnsweredId(q))
  BY <1>7, <1>8, <1>9 DEF AnsweredId
<1>12. LedgerStatus[r] = "open"
  BY <1>2, <1>3, StatusCases
<1>13. pending'[r] = NoWire /\ \A q \in RequestIds : q # r => pending'[q] = pending[q]
  BY <1>2, <1>4 DEF TypeInv, BrokerTypeOK
<1>14. LedgerStatus'[r] = "decided"
  BY <1>2, <1>10, <1>13, StatusCasesNext
<1>15. \A q \in RequestIds : q # r => LedgerStatus'[q] = LedgerStatus[q]
  BY <1>4, <1>11, <1>13 DEF LedgerStatus
<1>16. LedgerStatus' = [LedgerStatus EXCEPT ![r] = "decided"]
  BY <1>2, <1>14, <1>15, StatusExcept
<1>17. LedgerChoice'[r] = x.decision
  <2>1. \A j \in DOMAIN sent' : Normalized[sent'[j].wire] = r => j = n
    BY <1>5, <1>7, <1>8 DEF AnsweredId
  <2>2. (CHOOSE j \in DOMAIN sent' : Normalized[sent'[j].wire] = r) = n
    BY <1>8, <1>9, <2>1, OnlyChoice
  <2> QED
    BY <1>2, <1>9, <1>10, <2>2 DEF LedgerChoice
<1>18. ASSUME NEW q \in RequestIds, q # r
       PROVE  LedgerChoice'[q] = LedgerChoice[q]
  <2>1. CASE ~AnsweredId(q)
    BY <1>11, <1>18, <2>1 DEF LedgerChoice
  <2>2. CASE AnsweredId(q)
    <3>1. PICK k \in DOMAIN sent : Normalized[sent[k].wire] = q
      BY <2>2 DEF AnsweredId
    <3>2. \A j \in DOMAIN sent : Normalized[sent[j].wire] = q => j = k
      BY <1>7, <3>1 DEF Known, AtMostOneAnswer
    <3>3. (CHOOSE j \in DOMAIN sent : Normalized[sent[j].wire] = q) = k
      BY <3>1, <3>2, OnlyChoice
    <3>4. \A j \in DOMAIN sent' : Normalized[sent'[j].wire] = q => j = k
      BY <1>7, <1>8, <1>9, <1>18, <3>2
    <3>5. (CHOOSE j \in DOMAIN sent' : Normalized[sent'[j].wire] = q) = k
      BY <1>7, <1>8, <3>1, <3>4, OnlyChoice
    <3>6. sent'[k] = sent[k]
      BY <1>7
    <3>7. LedgerChoice[q] = sent[k].response.decision
      BY <2>2, <3>3 DEF LedgerChoice
    <3>8. LedgerChoice'[q] = sent'[k].response.decision
      <4>1. AnsweredId(q)'
        BY <1>11, <1>18, <2>2
      <4> QED
        BY <3>5, <4>1 DEF LedgerChoice
    <3> QED
      BY <3>6, <3>7, <3>8
  <2> QED
    BY <2>1, <2>2
<1>19. LedgerChoice' = [LedgerChoice EXCEPT ![r] = x.decision]
  BY <1>2, <1>17, <1>18, ChoiceExcept
<1>20. x.decision \in Decisions
  BY DEF Response
<1> QED
  BY <1>12, <1>16, <1>19, <1>20 DEF Ledger!Decide

(* A run begins with an empty ledger. *)
LEMMA LedgerBegins ==
  ASSUME Phases, Start
  PROVE  Ledger!NewRun
<1>1. sent' = <<>> /\ approvalsLog' = {} /\ \A r \in RequestIds : pending'[r] = NoWire
  BY DEF Start, Phases, NothingPending, brokerVars
<1>2. \A r : ~AnsweredId(r)'
  BY <1>1 DEF AnsweredId
<1>3. LedgerStatus' = [r \in RequestIds |-> "none"]
  BY <1>1, <1>2 DEF LedgerStatus
<1>4. LedgerChoice' = [r \in RequestIds |-> NoDecision]
  BY <1>2 DEF LedgerChoice
<1> QED
  BY <1>3, <1>4 DEF Ledger!NewRun

LEMMA LedgerInit == Init => Ledger!Blank
<1> SUFFICES ASSUME Init PROVE Ledger!Blank
  OBVIOUS
<1>1. sent = <<>> /\ approvalsLog = {} /\ \A r \in RequestIds : pending[r] = NoWire
  BY DEF Init, NewBroker
<1>2. \A r : ~AnsweredId(r)
  BY <1>1 DEF AnsweredId
<1> QED
  BY <1>1, <1>2 DEF Ledger!Blank, LedgerStatus, LedgerChoice

LEMMA LedgerStep ==
  ASSUME TypeInv, Phases, Known, [Next]_vars
  PROVE  [Ledger!LedgerNext]_(Ledger!ledger)
<1> USE DEF Ledger!LedgerNext, Ledger!ledger
<1>1. CASE Start
  BY <1>1, LedgerBegins
<1>2. CASE WriteFinal \/ WriteError \/ Kill
  BY <1>2, LedgerCloses DEF WriteFinal, WriteError, Kill, EndProcess, ResetBroker, auditVars
<1>3. CASE AnswerFails
  <2>1. \A r \in RequestIds : pending'[r] = pending[r] \/ pending'[r] = NoWire
    BY <1>3 DEF AnswerFails, SendDecision, TypeInv, BrokerTypeOK
  <2> QED
    BY <1>3, <2>1, LedgerCloses DEF AnswerFails, auditVars
<1>4. CASE AnswerQueued
  BY <1>4, QueuedAnswers, LedgerDecides
<1>5. CASE ReadMessage
  <2> DEFINE m == Head(inbound)
  <2>1. CASE m.method = "requestApproval"
    BY <1>5, <2>1, LedgerOpens
  <2>2. CASE m.method # "requestApproval"
    <3>1. m \in Message
      BY <1>5, HeadTailProperties DEF ReadMessage, ReadLine, TypeInv, CodexTypeOK, PipeTypeOK
    <3>2. /\ ApprovalsOf(m) = {}
          /\ \A r \in RequestIds : pending'[r] = pending[r] \/ pending'[r] = NoWire
      BY <1>5, <2>2, <3>1, HandledPending DEF ReadMessage, TypeInv
    <3> QED
      BY <1>5, <3>2, LedgerCloses DEF ReadMessage
  <2> QED
    BY <2>1, <2>2
<1>6. CASE WriteStarting \/ Handshake \/ HandshakeFails \/ Timeout
  BY <1>6, LedgerUnchanged
     DEF WriteStarting, Handshake, HandshakeFails, Timeout, brokerVars, auditVars
<1>7. CASE LoadResponses \/ RecordDecision \/ RejectQueued \/ DrainDone
  BY <1>7, LedgerUnchanged
     DEF LoadResponses, RecordDecision, RejectQueued, DrainDone, brokerVars, auditVars
<1>8. CASE ReadTimesOut \/ PublishAndContinue \/ PublishAndFinish
  BY <1>8, LedgerUnchanged
     DEF ReadTimesOut, PublishAndContinue, PublishAndFinish, brokerVars, auditVars
<1>9. ASSUME NEW c \in Clients, Ask(c) \/ Enqueue(c)
      PROVE  UNCHANGED <<LedgerStatus, LedgerChoice>>
  BY <1>9, LedgerUnchanged
     DEF Ask, Enqueue, CheckStatus, CheckPending, CheckQueue, AppendResponse, ClientUnchanged,
         brokerVars, auditVars
<1>10. CASE Environment \/ UNCHANGED vars
  BY <1>10, LedgerUnchanged DEF Environment, vars, brokerVars, auditVars
<1> QED
  BY <1>1, <1>2, <1>3, <1>4, <1>5, <1>6, <1>7, <1>8, <1>9, <1>10 DEF Next, ServiceStep

(***************************************************************************)
(* The service implements the ledger: a request is opened once and decided *)
(* once or closed undecided, whatever the constants are.                   *)
(***************************************************************************)
THEOREM LedgerImplemented == Spec => ImplementsLedger
<1>1. IInv /\ [Next]_vars => [Ledger!LedgerNext]_(Ledger!ledger)
  BY LedgerStep DEF IInv
<1> QED
  BY <1>1, LedgerInit, Inductive, PTL DEF Spec, ImplementsLedger, Ledger!LedgerSpec

=============================================================================
