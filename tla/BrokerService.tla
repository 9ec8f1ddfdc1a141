--------------------------- MODULE BrokerService ---------------------------
(***************************************************************************)
(* The file-backed broker service of cra/broker_service.py:                *)
(* run_broker_service, which owns the App Server child and the BrokerState *)
(* and is the only process to write the runtime state file, and the        *)
(* processes that run enqueue_broker_response (cra.cli broker-respond),    *)
(* which read that file and append to the response queue file.  Nothing    *)
(* locks the two files.  The service may be killed and run again: the      *)
(* files survive, the App Server and everything in memory do not.          *)
(*                                                                         *)
(* A step of the service is a stretch of its loop with at most one effect  *)
(* another process can see: a line to the App Server, an audit record or a *)
(* write of the state file.                                                *)
(***************************************************************************)
EXTENDS CodexAppServer

CONSTANTS
  Clients,      \* the broker-respond processes that may run at once
  MaxRuns,      \* bound: runs of the service
  MaxResponses  \* bound: responses asked for while one queue file lasts

ASSUME BoundsAssumption == MaxRuns \in Nat /\ MaxResponses \in Nat

VARIABLES
  loop,            \* where the service is
  run,             \* how many times it was started
  cursor,          \* response_cursor: queue lines read so far
  batch,           \* queued_responses not yet handled in this pass
  changed,         \* the pass has something to publish
  turnCompleted,   \* turn_completed
  queue,           \* broker-responses.jsonl
  stateFile,       \* broker-state.json
  approvalsLog,    \* ids this run has added to broker-approvals.jsonl
  decisionsLog,    \* what this run has added to broker-decisions.jsonl
  resolutionsLog,  \* what this run has added to broker-resolutions.jsonl
  pastAudit,       \* what earlier runs have left in the three files
  client,          \* the broker-respond processes
  sent             \* history: the decisions written to the App Server in this run

serviceVars == <<loop, run, cursor, batch, changed, turnCompleted>>
fileVars == <<queue, stateFile>>
auditVars == <<approvalsLog, decisionsLog, resolutionsLog, pastAudit>>
vars == <<brokerVars, codexVars, serviceVars, fileVars, auditVars, client, sent>>

(***************************************************************************)
(* `run' in the records below is history: it names the run whose state     *)
(* file the operator was looking at.  The code keeps no such field.        *)
(***************************************************************************)
Response == [id : RequestIds, decision : Decisions, run : 0..MaxRuns]

Statuses ==
  {"absent", "starting", "running", "approval_pending", "completed", "timeout", "error"}
Accepting == {"starting", "running", "approval_pending"}

LoopSteps == {"top", "drain", "audit", "read", "publish"}
ServiceSteps ==
  LoopSteps \cup {"down", "starting", "handshake", "failed", "finishing"}

(* A broker-respond process: what it does next, and the response it carries. *)
Idle == [step |-> "idle", response |-> <<>>]
Process ==
  {Idle} \cup [step : {"status", "pending", "queue", "append"}, response : Response]

TypeOK ==
  /\ BrokerTypeOK
  /\ CodexTypeOK
  /\ loop \in ServiceSteps
  /\ run \in 0..MaxRuns
  /\ cursor \in Nat
  /\ batch \in Seq(Response)
  /\ changed \in BOOLEAN
  /\ turnCompleted \in BOOLEAN
  /\ queue \in Seq(Response)
  /\ stateFile \in [status : Statuses, pending : SUBSET RequestIds, run : 0..MaxRuns]
  /\ approvalsLog \subseteq RequestIds
  /\ decisionsLog \in Seq([id : RequestIds, decision : Decisions])
  /\ resolutionsLog \subseteq
       [id : RequestIds, stale : BOOLEAN,
        reason : {"server_request_resolved", "item_completed", "response_rejected"}]
  /\ pastAudit \in [approvals : SUBSET RequestIds, accounted : SUBSET RequestIds]
  /\ client \in [Clients -> Process]
  /\ sent \in Seq([wire : WireIds, response : Response])

-----------------------------------------------------------------------------

Init ==
  /\ NewBroker
  /\ NoTurn
  /\ PipesEmpty
  /\ loop = "down"
  /\ run = 0
  /\ cursor = 0
  /\ batch = <<>>
  /\ changed = FALSE
  /\ turnCompleted = FALSE
  /\ queue = <<>>
  /\ stateFile = [status |-> "absent", pending |-> {}, run |-> 0]
  /\ approvalsLog = {}
  /\ decisionsLog = <<>>
  /\ resolutionsLog = {}
  /\ pastAudit = [approvals |-> {}, accounted |-> {}]
  /\ client = [c \in Clients |-> Idle]
  /\ sent = <<>>

(***************************************************************************)
(* What write_json_atomic leaves in the state file: the status and the ids *)
(* pending in memory when the payload was built.                           *)
(***************************************************************************)
WriteState(status) ==
  stateFile' = [status |-> status, pending |-> PendingIds, run |-> run]

(* _determine_runtime_status inside the loop. *)
LoopStatus ==
  CASE turnCompleted -> "completed"
    [] ~turnCompleted /\ PendingIds # {} -> "approval_pending"
    [] OTHER -> "running"

-----------------------------------------------------------------------------
(***************************************************************************)
(* Start and end of a run.                                                 *)
(***************************************************************************)

(* Leaving the with block terminates the App Server. *)
CloseChild == ResetTurn /\ ClosePipes

(* The process is gone, and with it everything it held in memory. *)
EndProcess ==
  /\ loop' = "down"
  /\ ResetBroker
  /\ CloseChild
  /\ cursor' = 0
  /\ batch' = <<>>
  /\ changed' = FALSE
  /\ turnCompleted' = FALSE
  /\ UNCHANGED <<run, queue, auditVars, client, sent>>

(* The ids this run's records of decisions and resolutions name. *)
Accounted ==
  {decisionsLog[k].id : k \in DOMAIN decisionsLog} \cup {e.id : e \in resolutionsLog}

(* A new run truncates the queue file before anything else; the audit files *)
(* are only ever appended to.                                              *)
Start ==
  /\ loop = "down"
  /\ run < MaxRuns
  /\ run' = run + 1
  /\ loop' = "starting"
  /\ queue' = <<>>
  /\ approvalsLog' = {}
  /\ decisionsLog' = <<>>
  /\ resolutionsLog' = {}
  /\ pastAudit' = [approvals |-> pastAudit.approvals \cup approvalsLog,
                   accounted |-> pastAudit.accounted \cup Accounted]
  /\ sent' = <<>>
  /\ UNCHANGED <<brokerVars, codexVars, cursor, batch, changed, turnCompleted,
                 stateFile, client>>

WriteStarting ==
  /\ loop = "starting"
  /\ WriteState("starting")
  /\ loop' = "handshake"
  /\ UNCHANGED <<brokerVars, codexVars, run, cursor, batch, changed, turnCompleted,
                 queue, auditVars, client, sent>>

(* initialize, thread/start and turn/start were answered: the turn runs.   *)
Handshake ==
  /\ loop = "handshake"
  /\ running' = TRUE
  /\ turn' = "active"
  /\ WriteState("running")
  /\ loop' = "top"
  /\ UNCHANGED <<brokerVars, codex, itemState, inbound, buffered, outbound,
                 run, cursor, batch, changed, turnCompleted, queue, auditVars, client, sent>>

(* One of them failed or timed out. *)
HandshakeFails ==
  /\ loop = "handshake"
  /\ CloseChild
  /\ loop' = "failed"
  /\ UNCHANGED <<brokerVars, run, cursor, batch, changed, turnCompleted,
                 fileVars, auditVars, client, sent>>

(* The loop ends on its timeout. *)
Timeout ==
  /\ loop = "top"
  /\ CloseChild
  /\ loop' = "finishing"
  /\ UNCHANGED <<brokerVars, run, cursor, batch, changed, turnCompleted,
                 fileVars, auditVars, client, sent>>

WriteFinal ==
  /\ loop = "finishing"
  /\ WriteState(IF turnCompleted THEN "completed" ELSE "timeout")
  /\ EndProcess

WriteError ==
  /\ loop = "failed"
  /\ WriteState("error")
  /\ EndProcess

(* The process is killed or interrupted: the except clause catches neither, *)
(* so the state file keeps what was last written.                          *)
Kill ==
  /\ loop # "down"
  /\ EndProcess
  /\ UNCHANGED stateFile

-----------------------------------------------------------------------------
(***************************************************************************)
(* One pass of the loop.                                                   *)
(***************************************************************************)

LoadResponses_SkipsOne ==
  /\ loop = "top"
  /\ batch' = SubSeq(queue, cursor + 2, Len(queue))
  /\ cursor' = Len(queue)
  /\ changed' = FALSE
  /\ loop' = "drain"
  /\ UNCHANGED <<brokerVars, codexVars, run, turnCompleted, fileVars, auditVars,
                 client, sent>>

LoadResponses_SameCursor ==
  /\ loop = "top"
  /\ batch' = SubSeq(queue, cursor + 1, Len(queue))
  /\ changed' = FALSE
  /\ loop' = "drain"
  /\ UNCHANGED <<brokerVars, codexVars, run, cursor, turnCompleted, fileVars, auditVars,
                 client, sent>>

(* load_response_requests: the lines behind the cursor. *)
LoadResponses ==
  /\ loop = "top"
  /\ batch' = SubSeq(queue, cursor + 1, Len(queue))
  /\ cursor' = Len(queue)
  /\ changed' = FALSE
  /\ loop' = "drain"
  /\ UNCHANGED <<brokerVars, codexVars, run, turnCompleted, fileVars, auditVars,
                 client, sent>>

AnswerQueued_Unrecorded ==
  /\ loop = "drain"
  /\ batch # <<>>
  /\ LET response == Head(batch) IN
       /\ SendDecision(response.id)
       /\ SendLine([wire |-> pending[response.id], decision |-> response.decision])
       /\ sent' = Append(sent, [wire |-> pending[response.id], response |-> response])
  /\ batch' = Tail(batch)
  /\ changed' = TRUE
  /\ UNCHANGED <<turnVars, loop, run, cursor, turnCompleted, fileVars, auditVars, client>>

(* A response for a pending request: send_decision, then send_response.    *)
AnswerQueued ==
  /\ loop = "drain"
  /\ batch # <<>>
  /\ LET response == Head(batch) IN
       /\ SendDecision(response.id)
       /\ SendLine([wire |-> pending[response.id], decision |-> response.decision])
       /\ sent' = Append(sent, [wire |-> pending[response.id], response |-> response])
  /\ loop' = "audit"
  /\ UNCHANGED <<turnVars, run, cursor, batch, changed, turnCompleted, fileVars,
                 auditVars, client>>

(* The child is dead: the request has left pending, the answer goes nowhere. *)
AnswerFails ==
  /\ loop = "drain"
  /\ batch # <<>>
  /\ SendDecision(Head(batch).id)
  /\ ~running
  /\ CloseChild
  /\ loop' = "failed"
  /\ UNCHANGED <<run, cursor, batch, changed, turnCompleted, fileVars,
                 auditVars, client, sent>>

RecordDecision ==
  /\ loop = "audit"
  /\ decisionsLog' =
       Append(decisionsLog, [id |-> Head(batch).id, decision |-> Head(batch).decision])
  /\ batch' = Tail(batch)
  /\ changed' = TRUE
  /\ loop' = "drain"
  /\ UNCHANGED <<brokerVars, codexVars, run, cursor, turnCompleted, fileVars,
                 approvalsLog, resolutionsLog, pastAudit, client, sent>>

(* A response for a request that is not pending is recorded as rejected.   *)
RejectQueued ==
  /\ loop = "drain"
  /\ batch # <<>>
  /\ Head(batch).id \notin PendingIds
  /\ resolutionsLog' =
       resolutionsLog \cup {Resolution(Head(batch).id, "response_rejected", TRUE)}
  /\ batch' = Tail(batch)
  /\ changed' = TRUE
  /\ UNCHANGED <<brokerVars, codexVars, loop, run, cursor, turnCompleted, fileVars,
                 approvalsLog, decisionsLog, pastAudit, client, sent>>

DrainDone ==
  /\ loop = "drain"
  /\ batch = <<>>
  /\ loop' = "read"
  /\ UNCHANGED <<brokerVars, codexVars, run, cursor, batch, changed, turnCompleted,
                 fileVars, auditVars, client, sent>>

(* read_message, handle_message and record_events. *)
ReadMessage ==
  /\ loop = "read"
  /\ ReadLine
  /\ LET m == Head(inbound) IN
       /\ HandleMessage(m)
       /\ approvalsLog' = approvalsLog \cup ApprovalsOf(m)
       /\ resolutionsLog' = resolutionsLog \cup ResolutionsOf(m)
       /\ changed' = (changed \/ Emits(m))
       /\ turnCompleted' = (turnCompleted \/ m.method = "turn/completed")
  /\ loop' = "publish"
  /\ UNCHANGED <<turnVars, run, cursor, batch, fileVars, decisionsLog, pastAudit,
                 client, sent>>

ReadTimesOut ==
  /\ loop = "read"
  /\ ReadNothing
  /\ loop' = "publish"
  /\ UNCHANGED <<brokerVars, turnVars, run, cursor, batch, changed, turnCompleted,
                 fileVars, auditVars, client, sent>>

(* The state file is written if anything changed; the loop then ends when  *)
(* the turn is completed and nothing is pending.                           *)
PublishAndContinue ==
  /\ loop = "publish"
  /\ IF changed THEN WriteState(LoopStatus) ELSE UNCHANGED stateFile
  /\ ~(turnCompleted /\ PendingIds = {})
  /\ loop' = "top"
  /\ UNCHANGED <<brokerVars, codexVars, run, cursor, batch, changed, turnCompleted,
                 queue, auditVars, client, sent>>

PublishAndFinish ==
  /\ loop = "publish"
  /\ IF changed THEN WriteState(LoopStatus) ELSE UNCHANGED stateFile
  /\ turnCompleted /\ PendingIds = {}
  /\ CloseChild
  /\ loop' = "finishing"
  /\ UNCHANGED <<brokerVars, run, cursor, batch, changed, turnCompleted,
                 queue, auditVars, client, sent>>

-----------------------------------------------------------------------------

(* summarize_broker_audit's unresolved_request_ids: the approvals recorded  *)
(* without a decision and without a resolution, of whatever reason and by  *)
(* whatever run.                                                           *)
UnresolvedIds ==
  (pastAudit.approvals \cup approvalsLog) \ (pastAudit.accounted \cup Accounted)

-----------------------------------------------------------------------------
(***************************************************************************)
(* enqueue_broker_response: four looks at two files, no lock.              *)
(***************************************************************************)

Busy == {c \in Clients : client[c].step # "idle"}

Advance(c, step) == client' = [client EXCEPT ![c].step = step]
GiveUp(c) == client' = [client EXCEPT ![c] = Idle]

ClientUnchanged == UNCHANGED <<brokerVars, codexVars, serviceVars, auditVars, sent>>

(* The operator sees a pending approval in the state file and decides it.  *)
Ask(c) ==
  /\ client[c].step = "idle"
  /\ Len(queue) + Cardinality(Busy) < MaxResponses
  /\ \E r \in stateFile.pending, d \in Decisions :
       client' = [client EXCEPT ![c] =
                    [step |-> "status",
                     response |-> [id |-> r, decision |-> d, run |-> stateFile.run]]]
  /\ ClientUnchanged /\ UNCHANGED fileVars

CheckStatus(c) ==
  /\ client[c].step = "status"
  /\ \/ stateFile.status \in Accepting /\ Advance(c, "pending")
     \/ stateFile.status \notin Accepting /\ GiveUp(c)
  /\ ClientUnchanged /\ UNCHANGED fileVars

CheckPending(c) ==
  /\ client[c].step = "pending"
  /\ \/ client[c].response.id \in stateFile.pending /\ Advance(c, "queue")
     \/ client[c].response.id \notin stateFile.pending /\ GiveUp(c)
  /\ ClientUnchanged /\ UNCHANGED fileVars

(* queued_request_ids reads the whole file, handled lines included.        *)
QueuedIds == {queue[k].id : k \in DOMAIN queue}

CheckQueue(c) ==
  /\ client[c].step = "queue"
  /\ \/ client[c].response.id \notin QueuedIds /\ Advance(c, "append")
     \/ client[c].response.id \in QueuedIds /\ GiveUp(c)
  /\ ClientUnchanged /\ UNCHANGED fileVars

AppendResponse(c) ==
  /\ client[c].step = "append"
  /\ queue' = Append(queue, client[c].response)
  /\ GiveUp(c)
  /\ ClientUnchanged /\ UNCHANGED stateFile

Enqueue(c) ==
  CheckStatus(c) \/ CheckPending(c) \/ CheckQueue(c) \/ AppendResponse(c)

-----------------------------------------------------------------------------

ServiceStep ==
  \/ WriteStarting \/ Handshake \/ WriteFinal \/ WriteError
  \/ LoadResponses \/ AnswerQueued \/ AnswerFails \/ RecordDecision
  \/ RejectQueued \/ DrainDone
  \/ ReadMessage \/ ReadTimesOut \/ PublishAndContinue \/ PublishAndFinish

Environment ==
  CodexStep /\ UNCHANGED <<brokerVars, serviceVars, fileVars, auditVars, client, sent>>

Next ==
  \/ Start
  \/ ServiceStep
  \/ HandshakeFails
  \/ Timeout
  \/ Kill
  \/ \E c \in Clients : Ask(c) \/ Enqueue(c)
  \/ Environment

Spec == Init /\ [][Next]_vars

(***************************************************************************)
(* The processes that are scheduled and never wait on each other: the      *)
(* service's loop, a broker-respond process that has begun, and the App    *)
(* Server taking what was written to it.                                   *)
(***************************************************************************)
Fairness ==
  /\ WF_vars(ServiceStep)
  /\ \A c \in Clients : WF_vars(Enqueue(c))
  /\ WF_vars((TakeDecision \/ IgnoreDecision)
             /\ UNCHANGED <<brokerVars, serviceVars, fileVars, auditVars, client, sent>>)

FairSpec == Spec /\ Fairness

=============================================================================
