-------------------------- MODULE CodexAppServer ---------------------------
(***************************************************************************)
(* The Codex App Server as the broker sees it: a child process outside     *)
(* this repository, modelled from the messages the repository's code,      *)
(* tests and fixtures exchange with it.  During one turn it starts items,  *)
(* asks for approvals of them, takes the decisions, withdraws requests     *)
(* nobody has answered, completes items and completes the turn.            *)
(*                                                                         *)
(* It asks once under each id, and it reports every request it closes:     *)
(* with serverRequest/resolved, or with the item/completed of its item.    *)
(***************************************************************************)
EXTENDS BrokerState, AppServerClient

CONSTANTS
  Decisions,    \* what an operator may decide: accept, acceptForSession, ...
  Reported,     \* bound: the items reported as item/completed while in progress
  TurnWaits     \* TRUE: the App Server completes no turn with a request open

ASSUME TurnWaitsAssumption == TurnWaits \in BOOLEAN

VARIABLES
  codex,        \* wire id -> "idle", "open" or "closed"
  itemState,    \* item -> "new", "started", "reported" or "completed"
  turn          \* "idle", "active" or "completed"

Answer == [wire : WireIds, decision : Decisions]

turnVars == <<codex, itemState, turn>>
codexVars == <<turnVars, pipeVars>>

CodexTypeOK ==
  /\ codex \in [WireIds -> {"idle", "open", "closed"}]
  /\ itemState \in [Items -> {"new", "started", "reported", "completed"}]
  /\ turn \in {"idle", "active", "completed"}
  /\ PipeTypeOK(Message, Answer)

NoTurn ==
  /\ codex = [w \in WireIds |-> "idle"]
  /\ itemState = [i \in Items |-> "new"]
  /\ turn = "idle"

ResetTurn ==
  /\ codex' = [w \in WireIds |-> "idle"]
  /\ itemState' = [i \in Items |-> "new"]
  /\ turn' = "idle"

OpenRequests == {w \in WireIds : codex[w] = "open"}

-----------------------------------------------------------------------------

StartItem(i) ==
  /\ running /\ turn = "active"
  /\ itemState[i] = "new"
  /\ itemState' = [itemState EXCEPT ![i] = "started"]
  /\ Emit([method |-> "item/started", item |-> i])
  /\ UNCHANGED <<codex, turn, running, buffered, outbound>>

RequestApproval(w) ==
  /\ running /\ turn = "active"
  /\ codex[w] = "idle"
  /\ itemState[ItemOf[w]] \in {"started", "reported"}
  /\ codex' = [codex EXCEPT ![w] = "open"]
  /\ Emit([method |-> "requestApproval", wire |-> w])
  /\ UNCHANGED <<itemState, turn, running, buffered, outbound>>

(* The item/completed of an item still in progress: the guard of           *)
(* _cleanup_for_item exists for it.                                        *)
ReportItem(i) ==
  /\ running /\ turn = "active"
  /\ i \in Reported
  /\ itemState[i] = "started"
  /\ itemState' = [itemState EXCEPT ![i] = "reported"]
  /\ Emit([method |-> "item/completed", item |-> i, status |-> "inProgress"])
  /\ UNCHANGED <<codex, turn, running, buffered, outbound>>

(* Completing an item closes the requests it still has open. *)
CompleteItem(i) ==
  /\ running /\ turn = "active"
  /\ itemState[i] \in {"started", "reported"}
  /\ itemState' = [itemState EXCEPT ![i] = "completed"]
  /\ codex' = [w \in WireIds |->
                 IF codex[w] = "open" /\ ItemOf[w] = i THEN "closed" ELSE codex[w]]
  /\ Emit([method |-> "item/completed", item |-> i, status |-> "completed"])
  /\ UNCHANGED <<turn, running, buffered, outbound>>

(* A request nobody has answered is withdrawn. *)
WithdrawRequest(w) ==
  /\ running
  /\ codex[w] = "open"
  /\ codex' = [codex EXCEPT ![w] = "closed"]
  /\ Emit([method |-> "serverRequest/resolved", wire |-> w])
  /\ UNCHANGED <<itemState, turn, running, buffered, outbound>>

(* A decision for an open request closes it and is confirmed. *)
TakeDecision ==
  /\ running
  /\ outbound # <<>>
  /\ Head(outbound) \in Answer
  /\ codex[Head(outbound).wire] = "open"
  /\ codex' = [codex EXCEPT ![Head(outbound).wire] = "closed"]
  /\ Emit([method |-> "serverRequest/resolved", wire |-> Head(outbound).wire])
  /\ outbound' = Tail(outbound)
  /\ UNCHANGED <<itemState, turn, running, buffered>>

(* A decision that crossed with the closing of its request is ignored. *)
IgnoreDecision ==
  /\ running
  /\ outbound # <<>>
  /\ Head(outbound) \in Answer
  /\ codex[Head(outbound).wire] # "open"
  /\ outbound' = Tail(outbound)
  /\ UNCHANGED <<turnVars, running, inbound, buffered>>

(* The turn is completed.  Nothing in the repository says whether a request *)
(* may still be open then: the broker service is written for both cases.   *)
CompleteTurn ==
  /\ running /\ turn = "active"
  /\ TurnWaits => OpenRequests = {}
  /\ turn' = "completed"
  /\ Emit([method |-> "turn/completed"])
  /\ UNCHANGED <<codex, itemState, running, buffered, outbound>>

(* The child process ends, whatever it was doing. *)
Die ==
  /\ running
  /\ running' = FALSE
  /\ UNCHANGED <<turnVars, inbound, buffered, outbound>>

CodexStep ==
  \/ \E i \in Items : StartItem(i) \/ ReportItem(i) \/ CompleteItem(i)
  \/ \E w \in WireIds : RequestApproval(w) \/ WithdrawRequest(w)
  \/ TakeDecision
  \/ IgnoreDecision
  \/ CompleteTurn
  \/ Die

=============================================================================
