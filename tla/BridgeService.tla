--------------------------- MODULE BridgeService ---------------------------
(***************************************************************************)
(* The bridge of cra/bridge: run_bridge_service (service.py), which owns   *)
(* the App Server child and passes messages between it and a phone, and    *)
(* BridgeRuntime (runtime.py), which decides what to do with each of them  *)
(* over a BrokerState.                                                     *)
(*                                                                         *)
(* The secure channel is taken for what the module BridgeChannel shows of  *)
(* it: within a run messages reach the phone in order and none twice, and  *)
(* those for a phone that is away wait in the bridge's memory.  Files      *)
(* survive a run; the App Server, the approvals and the messages on their  *)
(* way do not, and a phone that pairs with the next run begins anew.       *)
(***************************************************************************)
EXTENDS CodexAppServer

CONSTANTS
  Offered,      \* the decisions a phone may send, valid or not
  Methods,      \* bound: the kinds of message the phone sends
  MaxAsks,      \* bound: messages of the phone in one run
  MaxRuns       \* bound: runs of the bridge

ASSUME OfferedAssumption == Decisions \subseteq Offered
ASSUME BridgeBoundsAssumption == MaxAsks \in Nat /\ MaxRuns \in Nat

VARIABLES
  pc,           \* where the service is
  todo,         \* what the handlers returned and the service has yet to do
  handshake,    \* codex_handshake_state
  forwarded,    \* forwarded_initialize_request_ids
  relayed,      \* history: every `initialize' this run has forwarded
  stateFile,    \* bridge-state.json
  approvalsLog, \* ids this run has added to broker-approvals.jsonl
  decisionsLog, \* what this run has added to broker-decisions.jsonl
  sent,         \* history: the decisions sent to the App Server in this run
  toBridge,     \* what the phone has sent and the bridge has not taken
  toPhone,      \* what the bridge has queued and the phone has not applied
  asked,        \* every message of the phone; the n-th has the id n
  reply,        \* the phone: what its n-th message was answered with
  view,         \* the phone: the pending approvals it shows
  run

runtimeVars == <<handshake, forwarded, relayed>>
logVars == <<approvalsLog, decisionsLog, sent>>
phoneVars == <<asked, reply, view>>
vars == <<brokerVars, codexVars, runtimeVars, logVars, phoneVars,
          pc, todo, stateFile, toBridge, toPhone, run>>

Asks == 1..MaxAsks

PhoneMessage ==
  [method : {"initialize", "initialized", "bridge/getPendingApprovals", "other"},
   id : Asks]
  \cup [method : {"bridge/respondApproval"}, id : Asks, request : RequestIds,
        decision : Offered]

(* The notification `initialized' asks for no answer. *)
Requests == {"initialize", "bridge/getPendingApprovals", "other", "bridge/respondApproval"}

Answers == {"bridgeManaged", "snapshot", "accepted", "error"}
Unanswered == "no"

(* What goes to the phone: the answer to a request, or a notification (0). *)
(* A snapshot carries the pending approvals.                               *)
Notice == [id : 0..MaxAsks, says : Answers, pending : SUBSET RequestIds]

Reply(m, says) == [id |-> m.id, says |-> says, pending |-> {}]
Snapshot(id, p) == [id |-> id, says |-> "snapshot", pending |-> PendingIn(p)]

(* What the bridge forwards to the App Server, and the answer to it; the    *)
(* error "already initialized" is as good as a result to the bridge.       *)
Forward == [method : {"initialize", "initialized"}, id : Asks]
Response ==
  [method : {"response"}, id : Asks, outcome : {"result", "error"}]

(* The effects a handler returns, in the order the service carries them out. *)
Effect ==
  [to : {"codex"}, line : Answer \cup Forward]
  \cup [to : {"audit"}, approvals : SUBSET RequestIds,
        decisions : {<<>>} \cup {<<a>> : a \in Answer}]
  \cup [to : {"phone"}, notice : Notice]

Codex(x) == <<[to |-> "codex", line |-> x]>>
Phone(n) == <<[to |-> "phone", notice |-> n]>>
Audit(approvals, decisions) ==
  <<[to |-> "audit", approvals |-> approvals, decisions |-> decisions]>>

Init ==
  /\ NewBroker
  /\ NoTurn
  /\ PipesEmpty
  /\ pc = "down"
  /\ todo = <<>>
  /\ handshake = "cold"
  /\ forwarded = {}
  /\ relayed = {}
  /\ stateFile = [status |-> "absent", pending |-> {}]
  /\ approvalsLog = {}
  /\ decisionsLog = <<>>
  /\ sent = <<>>
  /\ toBridge = <<>>
  /\ toPhone = <<>>
  /\ asked = <<>>
  /\ reply = [a \in Asks |-> Unanswered]
  /\ view = {}
  /\ run = 0

WriteState(status) == stateFile' = [status |-> status, pending |-> PendingIds]

-----------------------------------------------------------------------------
(***************************************************************************)
(* Start and end of a run.                                                 *)
(***************************************************************************)
Start ==
  /\ pc = "down"
  /\ run < MaxRuns
  /\ run' = run + 1
  /\ pc' = "starting"
  /\ WriteState("starting")
  /\ UNCHANGED <<brokerVars, codexVars, runtimeVars, logVars, phoneVars, todo,
                 toBridge, toPhone>>

(* initialize, thread/start and turn/start were answered. *)
Handshake ==
  /\ pc = "starting"
  /\ running' = TRUE
  /\ turn' = "active"
  /\ pc' = "top"
  /\ UNCHANGED <<brokerVars, codex, itemState, inbound, buffered, outbound, runtimeVars,
                 logVars, phoneVars, todo, stateFile, toBridge, toPhone, run>>

EndRun ==
  /\ pc' = "down"
  /\ ResetBroker
  /\ ResetTurn
  /\ ClosePipes
  /\ handshake' = "cold"
  /\ forwarded' = {}
  /\ relayed' = {}
  /\ approvalsLog' = {}
  /\ decisionsLog' = <<>>
  /\ sent' = <<>>
  /\ todo' = <<>>
  /\ toBridge' = <<>>
  /\ toPhone' = <<>>
  /\ asked' = <<>>
  /\ reply' = [a \in Asks |-> Unanswered]
  /\ view' = {}
  /\ UNCHANGED run

Timeout ==
  /\ pc = "top"
  /\ WriteState("completed")
  /\ EndRun

(* The relay closes, the handshake with the App Server fails, a frame holds *)
(* what is no number where the secure transport wants one, or the process  *)
(* is killed: nothing is caught, and the state file stays.                 *)
Fail ==
  /\ pc # "down"
  /\ EndRun
  /\ UNCHANGED stateFile

-----------------------------------------------------------------------------
(***************************************************************************)
(* BridgeRuntime.handle_phone_message, one action per kind of message.     *)
(***************************************************************************)

(* The bridge answers `initialize' itself once it knows the App Server is   *)
(* initialized; until then it forwards it.                                 *)
PhoneInitialize_Silent(m) ==
  /\ m.method = "initialize"
  /\ \/ /\ handshake = "warm"
        /\ todo' = <<>>
        /\ UNCHANGED <<forwarded, relayed>>
     \/ /\ handshake = "cold"
        /\ forwarded' = forwarded \cup {m.id}
        /\ relayed' = relayed \cup {m.id}
        /\ todo' = Codex(m)
  /\ UNCHANGED <<brokerVars, handshake>>

PhoneInitialize(m) ==
  /\ m.method = "initialize"
  /\ \/ /\ handshake = "warm"
        /\ todo' = Phone(Reply(m, "bridgeManaged"))
        /\ UNCHANGED <<forwarded, relayed>>
     \/ /\ handshake = "cold"
        /\ forwarded' = forwarded \cup {m.id}
        /\ relayed' = relayed \cup {m.id}
        /\ todo' = Codex(m)
  /\ UNCHANGED <<brokerVars, handshake>>

PhoneInitialized(m) ==
  /\ m.method = "initialized"
  /\ todo' = IF handshake = "cold" THEN Codex(m) ELSE <<>>
  /\ UNCHANGED <<brokerVars, runtimeVars>>

PhoneListsPending(m) ==
  /\ m.method = "bridge/getPendingApprovals"
  /\ todo' = Phone(Snapshot(m.id, pending))
  /\ UNCHANGED <<brokerVars, runtimeVars>>

DecisionEffects_AnswersFirst(m, answer, after) ==
  Phone(Reply(m, "accepted")) \o Codex(answer) \o Audit({}, <<answer>>)
    \o Phone(Snapshot(0, after))

DecisionEffects_NotSent(m, answer, after) ==
  Audit({}, <<answer>>) \o Phone(Reply(m, "accepted")) \o Phone(Snapshot(0, after))

DecisionEffects(m, answer, after) ==
  Codex(answer) \o Audit({}, <<answer>>)
    \o Phone(Reply(m, "accepted")) \o Phone(Snapshot(0, after))

PhoneDecides(m) ==
  /\ m.method = "bridge/respondApproval"
  /\ m.decision \in Decisions
  /\ SendDecision(m.request)
  /\ todo' = DecisionEffects(m, [wire |-> pending[m.request], decision |-> m.decision],
                             pending')
  /\ UNCHANGED runtimeVars

(* ValueError: the request is not pending, or the decision is none. *)
PhoneDecidesWrongly(m) ==
  /\ m.method = "bridge/respondApproval"
  /\ \/ m.request \notin PendingIds /\ UNCHANGED brokerVars
     \/ m.decision \notin Decisions /\ SendInvalidDecision(m.request)
  /\ todo' = Phone(Reply(m, "error"))
  /\ UNCHANGED runtimeVars

PhoneAsksOther(m) ==
  /\ m.method = "other"
  /\ todo' = Phone(Reply(m, "error"))
  /\ UNCHANGED <<brokerVars, runtimeVars>>

HandlePhoneMessage(m) ==
  \/ PhoneInitialize(m)
  \/ PhoneInitialized(m)
  \/ PhoneListsPending(m)
  \/ PhoneDecides(m)
  \/ PhoneDecidesWrongly(m)
  \/ PhoneAsksOther(m)

(***************************************************************************)
(* BridgeRuntime.handle_codex_message: the answer to a forwarded           *)
(* `initialize' is for the bridge only; a message the broker reports       *)
(* something of gives the phone a snapshot.                                *)
(***************************************************************************)
TrackCodexHandshake(m) ==
  IF m.id \in forwarded /\ m.outcome # "error"
    THEN handshake' = "warm" /\ forwarded' = forwarded \ {m.id} /\ UNCHANGED relayed
    ELSE UNCHANGED runtimeVars

HandleCodexMessage_OnApproval(m) ==
  \/ /\ m \in Response
     /\ TrackCodexHandshake(m)
     /\ todo' = <<>>
     /\ UNCHANGED brokerVars
  \/ /\ m \in Message
     /\ HandleMessage(m)
     /\ todo' = IF ApprovalsOf(m) # {}
                  THEN Audit(ApprovalsOf(m), <<>>) \o Phone(Snapshot(0, pending'))
                  ELSE <<>>
     /\ UNCHANGED runtimeVars

HandleCodexMessage(m) ==
  \/ /\ m \in Response
     /\ TrackCodexHandshake(m)
     /\ todo' = <<>>
     /\ UNCHANGED brokerVars
  \/ /\ m \in Message
     /\ HandleMessage(m)
     /\ todo' = IF Emits(m)
                  THEN Audit(ApprovalsOf(m), <<>>) \o Phone(Snapshot(0, pending'))
                  ELSE <<>>
     /\ UNCHANGED runtimeVars

-----------------------------------------------------------------------------
(***************************************************************************)
(* One pass of the loop.                                                   *)
(***************************************************************************)
TakePhoneMessage ==
  /\ pc = "top"
  /\ toBridge # <<>>
  /\ HandlePhoneMessage(Head(toBridge))
  /\ toBridge' = Tail(toBridge)
  /\ pc' = "phone"
  /\ UNCHANGED <<codexVars, logVars, phoneVars, stateFile, toPhone, run>>

(* No frame, one the secure transport keeps for itself, or a text JSON      *)
(* cannot read, which is passed over.                                      *)
NoPhoneMessage ==
  /\ pc = "top"
  /\ pc' = "phone"
  /\ UNCHANGED <<brokerVars, codexVars, runtimeVars, logVars, phoneVars, todo, stateFile,
                 toBridge, toPhone, run>>

TakeCodexMessage ==
  /\ pc = "phone" /\ todo = <<>>
  /\ ReadLine
  /\ HandleCodexMessage(Head(inbound))
  /\ pc' = "codex"
  /\ UNCHANGED <<turnVars, logVars, phoneVars, stateFile, toBridge, toPhone, run>>

NoCodexMessage ==
  /\ pc = "phone" /\ todo = <<>>
  /\ ReadNothing
  /\ pc' = "codex"
  /\ UNCHANGED <<brokerVars, turnVars, runtimeVars, logVars, phoneVars, todo, stateFile,
                 toBridge, toPhone, run>>

WriteRunning ==
  /\ pc = "codex" /\ todo = <<>>
  /\ WriteState("running")
  /\ pc' = "top"
  /\ UNCHANGED <<brokerVars, codexVars, runtimeVars, logVars, phoneVars, todo,
                 toBridge, toPhone, run>>

(* _send_message, send_response: to a living child ... *)
SendToCodex ==
  /\ todo # <<>> /\ Head(todo).to = "codex"
  /\ SendLine(Head(todo).line)
  /\ sent' = IF Head(todo).line \in Answer THEN Append(sent, Head(todo).line) ELSE sent
  /\ todo' = Tail(todo)
  /\ UNCHANGED <<brokerVars, turnVars, runtimeVars, approvalsLog, decisionsLog, phoneVars,
                 pc, stateFile, toBridge, toPhone, run>>

(* ... and to a dead one: BrokenPipeError ends the run. *)
SendFails ==
  /\ todo # <<>> /\ Head(todo).to = "codex"
  /\ ~running
  /\ EndRun
  /\ UNCHANGED stateFile

RecordEvents ==
  /\ todo # <<>> /\ Head(todo).to = "audit"
  /\ approvalsLog' = approvalsLog \cup Head(todo).approvals
  /\ decisionsLog' = decisionsLog \o Head(todo).decisions
  /\ todo' = Tail(todo)
  /\ UNCHANGED <<brokerVars, codexVars, runtimeVars, sent, phoneVars, pc, stateFile,
                 toBridge, toPhone, run>>

QueueForPhone ==
  /\ todo # <<>> /\ Head(todo).to = "phone"
  /\ toPhone' = Append(toPhone, Head(todo).notice)
  /\ todo' = Tail(todo)
  /\ UNCHANGED <<brokerVars, codexVars, runtimeVars, logVars, phoneVars, pc, stateFile,
                 toBridge, run>>

ServiceStep ==
  \/ Handshake
  \/ TakePhoneMessage \/ NoPhoneMessage
  \/ TakeCodexMessage \/ NoCodexMessage
  \/ SendToCodex \/ SendFails \/ RecordEvents \/ QueueForPhone
  \/ WriteRunning

-----------------------------------------------------------------------------
(***************************************************************************)
(* The App Server and the phone.                                           *)
(***************************************************************************)

(* The App Server answers an `initialize', and takes an `initialized'. *)
TakeForward ==
  /\ running
  /\ outbound # <<>>
  /\ Head(outbound) \in Forward
  /\ outbound' = Tail(outbound)
  /\ \/ /\ Head(outbound).method = "initialize"
        /\ \E o \in {"result", "error"} :
             Emit([method |-> "response", id |-> Head(outbound).id, outcome |-> o])
     \/ Head(outbound).method = "initialized" /\ UNCHANGED inbound
  /\ UNCHANGED <<turnVars, running, buffered>>

BridgeUnchanged ==
  UNCHANGED <<brokerVars, runtimeVars, logVars, phoneVars, pc, todo, stateFile,
              toBridge, toPhone, run>>

Environment == (CodexStep \/ TakeForward) /\ BridgeUnchanged

(* The phone sends a message; it decides on what it shows. *)
PhoneSends ==
  /\ pc \notin {"down", "starting"}
  /\ Len(asked) < MaxAsks
  /\ LET id == Len(asked) + 1 IN
       \E m \in PhoneMessage :
         /\ m.id = id /\ m.method \in Methods
         /\ m.method = "bridge/respondApproval" => m.request \in view
         /\ toBridge' = Append(toBridge, m)
         /\ asked' = Append(asked, m)
  /\ UNCHANGED <<brokerVars, codexVars, runtimeVars, logVars, pc, todo, stateFile,
                 toPhone, reply, view, run>>

PhoneReads ==
  /\ toPhone # <<>>
  /\ toPhone' = Tail(toPhone)
  /\ LET n == Head(toPhone) IN
       /\ view' = IF n.says = "snapshot" THEN n.pending ELSE view
       /\ reply' = IF n.id # 0 THEN [reply EXCEPT ![n.id] = n.says] ELSE reply
  /\ UNCHANGED <<brokerVars, codexVars, runtimeVars, logVars, pc, todo, stateFile,
                 toBridge, asked, run>>

-----------------------------------------------------------------------------
Next ==
  \/ Start \/ Timeout \/ Fail
  \/ ServiceStep
  \/ Environment
  \/ PhoneSends \/ PhoneReads

Spec == Init /\ [][Next]_vars

=============================================================================
