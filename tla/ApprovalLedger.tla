--------------------------- MODULE ApprovalLedger ---------------------------
(***************************************************************************)
(* What the broker service promises about the approvals of a run, without  *)
(* queues, files, processes or messages: a request is opened once; an open *)
(* request is decided once or closed undecided; what is decided or closed  *)
(* stays so until the next run begins with an empty ledger.                *)
(***************************************************************************)
CONSTANTS
  Requests,     \* request ids
  Choices,      \* decisions
  NoChoice      \* not a decision

VARIABLES
  status,       \* request -> "none", "open", "decided" or "closed"
  choice        \* request -> the decision, once decided

ledger == <<status, choice>>

Blank ==
  /\ status = [r \in Requests |-> "none"]
  /\ choice = [r \in Requests |-> NoChoice]

Open(r) ==
  /\ status[r] = "none"
  /\ status' = [status EXCEPT ![r] = "open"]
  /\ UNCHANGED choice

Decide(r, d) ==
  /\ status[r] = "open"
  /\ status' = [status EXCEPT ![r] = "decided"]
  /\ choice' = [choice EXCEPT ![r] = d]

(* Requests are closed together: the completion of an item closes all of its own. *)
Close(S) ==
  /\ \A r \in S : status[r] = "open"
  /\ status' = [r \in Requests |-> IF r \in S THEN "closed" ELSE status[r]]
  /\ UNCHANGED choice

NewRun ==
  /\ status' = [r \in Requests |-> "none"]
  /\ choice' = [r \in Requests |-> NoChoice]

LedgerNext ==
  \/ \E r \in Requests : Open(r)
  \/ \E r \in Requests, d \in Choices : Decide(r, d)
  \/ \E S \in SUBSET Requests : Close(S)
  \/ NewRun

LedgerSpec == Blank /\ [][LedgerNext]_ledger

=============================================================================
