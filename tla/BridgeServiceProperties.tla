---------------------- MODULE BridgeServiceProperties ----------------------
(* What the bridge must keep between the App Server and the phone. *)
EXTENDS BridgeService

CONSTANT NoDecision     \* not a decision

ASSUME NoDecisionAssumption == NoDecision \notin Decisions

InLoop == pc \notin {"down", "starting"}

TypeOK ==
  /\ BrokerTypeOK
  /\ codex \in [WireIds -> {"idle", "open", "closed"}]
  /\ itemState \in [Items -> {"new", "started", "reported", "completed"}]
  /\ turn \in {"idle", "active", "completed"}
  /\ PipeTypeOK(Message \cup Response, Answer \cup Forward)
  /\ pc \in {"down", "starting", "top", "phone", "codex"}
  /\ todo \in Seq(Effect)
  /\ handshake \in {"cold", "warm"}
  /\ forwarded \subseteq Asks
  /\ relayed \subseteq Asks
  /\ stateFile \in [status : {"absent", "starting", "running", "completed"},
                    pending : SUBSET RequestIds]
  /\ approvalsLog \subseteq RequestIds
  /\ decisionsLog \in Seq(Answer)
  /\ sent \in Seq(Answer)
  /\ toBridge \in Seq(PhoneMessage)
  /\ toPhone \in Seq(Notice)
  /\ asked \in Seq(PhoneMessage)
  /\ reply \in [Asks -> Answers \cup {Unanswered}]
  /\ view \subseteq RequestIds
  /\ run \in 0..MaxRuns

(* The decisions the handlers returned and the service has yet to send. *)
ToSend == {todo[k].line : k \in {j \in DOMAIN todo : todo[j].to = "codex"}}

(* The requests a phone has made a decision for that is none: send_decision *)
(* takes them out of pending before it refuses.                            *)
DecidedWrongly ==
  {r \in RequestIds :
     \E a \in DOMAIN asked : /\ asked[a].method = "bridge/respondApproval"
                            /\ asked[a].request = r
                            /\ asked[a].decision \notin Decisions}

-----------------------------------------------------------------------------
(***************************************************************************)
(* A phone that is told "accepted" can rely on it: its decision has been   *)
(* sent to the App Server and is in the audit trail, whatever failed or    *)
(* crossed in between (on_application_message).                            *)
(***************************************************************************)
AcceptedIsAnswered ==
  \A a \in Asks :
    reply[a] = "accepted" =>
      LET answered(log) == \E k \in DOMAIN log :
            /\ Normalized[log[k].wire] = asked[a].request
            /\ log[k].decision = asked[a].decision
      IN  answered(sent) /\ answered(decisionsLog)

(***************************************************************************)
(* A phone that has applied what it was sent shows exactly what is pending *)
(* in the bridge: every change of pending, from either side, is followed   *)
(* by a snapshot, and a snapshot never overtakes a later one.  Only what a *)
(* wrong decision took out of pending may still be shown.                  *)
(***************************************************************************)
ViewIsCurrent ==
  (pc = "top" /\ toPhone = <<>>) => view \ DecidedWrongly = PendingIds \ DecidedWrongly

(***************************************************************************)
(* Each request of the phone is answered once: never twice, and it has     *)
(* been when nothing is on its way, except for an `initialize' that was    *)
(* forwarded: its answer goes to the bridge only.  An `initialize' that    *)
(* meets a warm bridge is answered like any other request.                 *)
(***************************************************************************)
Quiet == pc = "top" /\ toBridge = <<>> /\ toPhone = <<>> /\ outbound = <<>> /\ inbound = <<>>

Promised(a) == asked[a].method \in Requests /\ a \notin relayed

NotTwice ==
  \A j \in DOMAIN toPhone :
    toPhone[j].id # 0 =>
      /\ reply[toPhone[j].id] = Unanswered
      /\ \A k \in DOMAIN toPhone : toPhone[k].id = toPhone[j].id => j = k

RequestsAnswered ==
  /\ NotTwice
  /\ Quiet => \A a \in DOMAIN asked : Promised(a) => reply[a] # Unanswered

(***************************************************************************)
(* While the bridge runs, a request the App Server waits on is never       *)
(* forgotten: it is still to be read, pending, or its answer is on the way *)
(* back.  Only a phone's decision that is none loses it: it takes the      *)
(* request out of pending and is refused, and so is the next, valid one.   *)
(***************************************************************************)
ApprovalKept ==
  InLoop =>
    \A w \in OpenRequests :
      \/ \E k \in DOMAIN inbound : inbound[k] = [method |-> "requestApproval", wire |-> w]
      \/ pending[Normalized[w]] = w
      \/ \E k \in DOMAIN outbound : outbound[k] \in Answer /\ outbound[k].wire = w
      \/ \E x \in ToSend : x \in Answer /\ x.wire = w
      \/ Normalized[w] \in DecidedWrongly

-----------------------------------------------------------------------------
(* The ledger of approvals, in terms of the bridge's state. *)
Decided(r) ==
  {x \in Answer : Normalized[x.wire] = r /\ (x \in ToSend \/ \E k \in DOMAIN sent : sent[k] = x)}

LedgerStatus ==
  [r \in RequestIds |->
     CASE pending[r] # NoWire -> "open"
       [] pending[r] = NoWire /\ Decided(r) # {} -> "decided"
       [] pending[r] = NoWire /\ Decided(r) = {} /\ r \in approvalsLog -> "closed"
       [] OTHER -> "none"]

LedgerChoice ==
  [r \in RequestIds |->
     IF Decided(r) # {} THEN (CHOOSE x \in Decided(r) : TRUE).decision ELSE NoDecision]

Ledger == INSTANCE ApprovalLedger WITH
  Requests <- RequestIds, Choices <- Decisions, NoChoice <- NoDecision,
  status <- LedgerStatus, choice <- LedgerChoice

(***************************************************************************)
(* The bridge keeps the ledger the broker service keeps: no request is     *)
(* opened twice, decided twice, or decided once it is closed, in any       *)
(* interleaving of the phone, the App Server and failures.                 *)
(***************************************************************************)
BridgeKeepsLedger == Ledger!LedgerSpec

=============================================================================
