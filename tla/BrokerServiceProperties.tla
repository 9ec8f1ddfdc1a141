---------------------- MODULE BrokerServiceProperties ----------------------
(***************************************************************************)
(* What the broker service, its clients and the App Server must keep, and  *)
(* three things the documentation says that they do not.                   *)
(***************************************************************************)
EXTENDS BrokerService

CONSTANT NoDecision     \* not a decision

ASSUME NoDecisionAssumption == NoDecision \notin Decisions

InLoop == loop \in LoopSteps

Answered(w) == \E k \in DOMAIN sent : sent[k].wire = w

(* The approval request of w is on its way to the broker. *)
OnItsWay(w) ==
  \E k \in DOMAIN inbound : inbound[k] = [method |-> "requestApproval", wire |-> w]

(* A message that closes the request of w is on its way to the broker. *)
Closing(w) ==
  \E k \in DOMAIN inbound :
    \/ inbound[k] = [method |-> "serverRequest/resolved", wire |-> w]
    \/ inbound[k] = [method |-> "item/completed", item |-> ItemOf[w], status |-> "completed"]

-----------------------------------------------------------------------------
(***************************************************************************)
(* Safety                                                                  *)
(***************************************************************************)

(***************************************************************************)
(* Codex is sent at most one decision for a request, however many          *)
(* broker-respond processes race past the duplicate check of the queue and *)
(* however their lines interleave with the App Server's own events.        *)
(***************************************************************************)
AtMostOneAnswer ==
  \A j, k \in DOMAIN sent : sent[j].wire = sent[k].wire => j = k

(***************************************************************************)
(* While the loop runs, a request Codex waits on is never forgotten: its   *)
(* message is still to be read, it is pending, or its answer is on the way *)
(* back.  An item that completes must take its own approvals with it and   *)
(* no other.                                                               *)
(***************************************************************************)
NoLostApproval ==
  InLoop =>
    \A w \in OpenRequests :
      \/ OnItsWay(w)
      \/ pending[Normalized[w]] = w
      \/ \E k \in DOMAIN outbound : outbound[k].wire = w

(***************************************************************************)
(* While the loop runs, what is pending is a request Codex still waits on, *)
(* or one whose closing is already on its way.                             *)
(***************************************************************************)
NoGhostApproval ==
  InLoop => \A r \in PendingIds : codex[pending[r]] = "open" \/ Closing(pending[r])

(***************************************************************************)
(* At the top of the loop the state file says what the broker knows: every *)
(* path through a pass that changes pending or turn_completed sets         *)
(* `changed'.                                                              *)
(***************************************************************************)
PublishedStateCurrent ==
  loop = "top" =>
    stateFile = [status |-> LoopStatus, pending |-> PendingIds, run |-> run]

(***************************************************************************)
(* broker-decisions.jsonl lists the answers Codex was sent, in order and   *)
(* none that was not sent; only the last may be missing, and only before   *)
(* it is recorded or when the service ended in between.                    *)
(***************************************************************************)
AuditMatchesAnswers ==
  LET missing == Len(sent) - Len(decisionsLog) IN
  /\ missing \in {0, 1}
  /\ missing = 1 => loop \notin LoopSteps \ {"audit"}
  /\ \A k \in DOMAIN decisionsLog :
       decisionsLog[k] = [id |-> sent[k].response.id, decision |-> sent[k].response.decision]

(***************************************************************************)
(* Every queue line the service has handled was either sent to Codex or    *)
(* recorded as rejected: the cursor skips nothing.                         *)
(***************************************************************************)
NoResponseDropped ==
  \A k \in 1..(cursor - Len(batch)) :
    \/ \E j \in DOMAIN sent : sent[j].response = queue[k]
    \/ Resolution(queue[k].id, "response_rejected", TRUE) \in resolutionsLog

(***************************************************************************)
(* The confirmation of a decision the broker sent is never logged as a     *)
(* stale resolution.                                                       *)
(***************************************************************************)
AnsweredNeverStale ==
  \A w \in WireIds :
    Answered(w) =>
      Resolution(Normalized[w], "server_request_resolved", TRUE) \notin resolutionsLog

(***************************************************************************)
(* The audit trail alone tells what is pending: at the top of the loop     *)
(* summarize_broker_audit lists as unresolved exactly the requests the     *)
(* broker holds, among the ids no earlier run has left in the files.  A    *)
(* response rejected for one request must not hide another, and a late     *)
(* decision must not leave its request unaccounted.  An id that is used    *)
(* again by a later run is outside of it: nothing in a record names a run. *)
(***************************************************************************)
AuditListsPending ==
  loop = "top" =>
    \A r \in RequestIds \ (pastAudit.approvals \cup pastAudit.accounted) :
      r \in UnresolvedIds <=> r \in PendingIds

(***************************************************************************)
(* If the App Server completes no turn with a request open, a state file   *)
(* that says "completed" lists nothing pending: broker-respond then        *)
(* refuses nobody an approval Codex waits on.                              *)
(***************************************************************************)
CompletedMeansDone ==
  TurnWaits /\ stateFile.status = "completed" => stateFile.pending = {}

-----------------------------------------------------------------------------
(***************************************************************************)
(* The ledger of approvals the service keeps, in terms of its state.       *)
(***************************************************************************)
AnsweredId(r) == \E k \in DOMAIN sent : Normalized[sent[k].wire] = r

LedgerStatus ==
  [r \in RequestIds |->
     CASE pending[r] # NoWire -> "open"
       [] pending[r] = NoWire /\ AnsweredId(r) -> "decided"
       [] pending[r] = NoWire /\ ~AnsweredId(r) /\ r \in approvalsLog -> "closed"
       [] OTHER -> "none"]

LedgerChoice ==
  [r \in RequestIds |->
     IF AnsweredId(r)
       THEN sent[CHOOSE k \in DOMAIN sent : Normalized[sent[k].wire] = r].response.decision
       ELSE NoDecision]

Ledger == INSTANCE ApprovalLedger WITH
  Requests <- RequestIds, Choices <- Decisions, NoChoice <- NoDecision,
  status <- LedgerStatus, choice <- LedgerChoice

(***************************************************************************)
(* The service implements the ledger: no request is opened twice, decided  *)
(* twice, decided once closed, or decided with one decision and then       *)
(* another, in any interleaving of clients, App Server and crashes.        *)
(***************************************************************************)
ImplementsLedger == Ledger!LedgerSpec

-----------------------------------------------------------------------------
(***************************************************************************)
(* Liveness, under FairSpec                                                *)
(***************************************************************************)

(***************************************************************************)
(* A line of the queue file is handled by the loop, or the loop ends.      *)
(***************************************************************************)
QueueDrained ==
  \A n \in 1..MaxResponses :
    (InLoop /\ Len(queue) >= n) ~> (~InLoop \/ cursor - Len(batch) >= n)

(***************************************************************************)
(* What is pending in memory comes to be offered in the state file, unless *)
(* it stops being pending or the loop ends.                                *)
(***************************************************************************)
PendingPublished ==
  \A r \in RequestIds :
    (InLoop /\ r \in PendingIds)
      ~> (~InLoop \/ r \notin PendingIds \/ r \in stateFile.pending)

-----------------------------------------------------------------------------
(***************************************************************************)
(* What the documentation says and the code does not keep                  *)
(***************************************************************************)

(***************************************************************************)
(* An approval request reaches the operator while Codex waits on it: it is *)
(* offered in the state file, or closed, or the run ends.                  *)
(***************************************************************************)
ApprovalReachesOperator ==
  \A w \in WireIds :
    (InLoop /\ codex[w] = "open")
      ~> (~InLoop \/ ~running \/ codex[w] # "open" \/ Normalized[w] \in stateFile.pending)

=============================================================================
