---------------------------- MODULE BrokerState ----------------------------
(***************************************************************************)
(* The in-memory broker of cra/broker.py: class BrokerState, the part that *)
(* the broker service and the bridge runtime both hold.  It remembers the  *)
(* approvals the Codex App Server waits on (pending), the ids it has given *)
(* a decision for (responded) and the items it has a snapshot of           *)
(* (itemsById).                                                            *)
(*                                                                         *)
(* The module has no Next of its own: every handler of the class is an     *)
(* action on these three variables, and the processes that own a           *)
(* BrokerState conjoin it with their own step.  Approval summaries,        *)
(* timestamps and operator notes are left out: no step depends on them.    *)
(*                                                                         *)
(* A definition Name_Slip, here and in the modules that extend this one,   *)
(* is Name with one slip in it.  No specification uses it: it shows which  *)
(* property a slip of that kind would break.                               *)
(***************************************************************************)
EXTENDS Naturals, Sequences, FiniteSets

CONSTANTS
  WireIds,      \* the JSON-RPC ids the App Server gives its approval requests
  RequestIds,   \* the same ids as the broker keys them: text
  Normalized,   \* [WireIds -> RequestIds]: normalize_request_id, str(value).strip()
  Items,        \* the ids of the items of a turn
  ItemOf,       \* [WireIds -> Items]: the itemId an approval request carries
  NoWire        \* not a wire id: nothing pending under a request id

(***************************************************************************)
(* str() tells two ids of one App Server apart: it numbers its requests    *)
(* with integers, or names them all with trimmed text.                     *)
(***************************************************************************)
ASSUME NormalizedAssumption ==
  /\ Normalized \in [WireIds -> RequestIds]
  /\ \A v, w \in WireIds : Normalized[v] = Normalized[w] => v = w

ASSUME ItemAssumption == ItemOf \in [WireIds -> Items]

ASSUME NoWireAssumption == NoWire \notin WireIds

VARIABLES
  pending,      \* request id -> the wire id of its pending approval, or NoWire
  responded,    \* responded_request_ids
  itemsById     \* the ids of the items seen

brokerVars == <<pending, responded, itemsById>>

(***************************************************************************)
(* The messages handle_message tells apart.                                *)
(***************************************************************************)
ApprovalMsg == [method : {"requestApproval"}, wire : WireIds]
ResolvedMsg == [method : {"serverRequest/resolved"}, wire : WireIds]
StartedMsg  == [method : {"item/started"}, item : Items]
CompletedMsg ==
  [method : {"item/completed"}, item : Items, status : {"inProgress", "completed"}]
TurnMsg     == [method : {"turn/completed"}]

Message == ApprovalMsg \cup ResolvedMsg \cup StartedMsg \cup CompletedMsg \cup TurnMsg

BrokerTypeOK ==
  /\ pending \in [RequestIds -> WireIds \cup {NoWire}]
  /\ responded \subseteq RequestIds
  /\ itemsById \subseteq Items

NewBroker ==
  /\ pending = [r \in RequestIds |-> NoWire]
  /\ responded = {}
  /\ itemsById = {}

ResetBroker ==
  /\ pending' = [r \in RequestIds |-> NoWire]
  /\ responded' = {}
  /\ itemsById' = {}

-----------------------------------------------------------------------------

PendingIn(p) == {r \in RequestIds : p[r] # NoWire}
PendingIds == PendingIn(pending)

(* The pending approvals of an item: what _cleanup_for_item closes. *)
PendingOf(i) == {r \in PendingIds : ItemOf[pending[r]] = i}

(***************************************************************************)
(* What handle_message returns: the events of the message, computed on the *)
(* state before it.                                                        *)
(***************************************************************************)
Resolution(r, reason, stale) == [id |-> r, reason |-> reason, stale |-> stale]

ApprovalsOf(m) ==
  IF m.method = "requestApproval" THEN {Normalized[m.wire]} ELSE {}

ResolvedStale_IgnoresResponded(r) == r \notin PendingIds
ResolvedStale(r) == r \notin PendingIds /\ r \notin responded

ResolutionsOf(m) ==
  CASE m.method = "serverRequest/resolved" ->
         LET r == Normalized[m.wire] IN
         {Resolution(r, "server_request_resolved", ResolvedStale(r))}
    [] m.method = "item/completed" /\ m.status # "inProgress" ->
         {Resolution(r, "item_completed", FALSE) : r \in PendingOf(m.item)}
    [] OTHER -> {}

Emits_ApprovalsOnly(m) == ApprovalsOf(m) # {}
Emits_ResolutionsOnly(m) == ResolutionsOf(m) # {} \/ m.method = "turn/completed"

Emits(m) ==
  \/ ApprovalsOf(m) # {}
  \/ ResolutionsOf(m) # {}
  \/ m.method = "turn/completed"

-----------------------------------------------------------------------------

(* An approval request is pending under its normalized id; a second one of *)
(* the same id would replace the first.                                    *)
HandleApproval(m) ==
  /\ m.method = "requestApproval"
  /\ pending' = [pending EXCEPT ![Normalized[m.wire]] = m.wire]
  /\ UNCHANGED <<responded, itemsById>>

HandleItemStarted(m) ==
  /\ m.method = "item/started"
  /\ itemsById' = itemsById \cup {m.item}
  /\ UNCHANGED <<pending, responded>>

(* _cleanup_for_item drops the approvals of a finished item; an item still *)
(* in progress drops none.                                                 *)
CleanupForItem_AnyItem(i) ==
  pending' = [r \in RequestIds |-> NoWire]

CleanupForItem(i) ==
  pending' = [r \in RequestIds |-> IF r \in PendingOf(i) THEN NoWire ELSE pending[r]]

HandleItemCompleted_AnyStatus(m) ==
  /\ m.method = "item/completed"
  /\ itemsById' = itemsById \cup {m.item}
  /\ CleanupForItem(m.item)
  /\ UNCHANGED responded

HandleItemCompleted(m) ==
  /\ m.method = "item/completed"
  /\ itemsById' = itemsById \cup {m.item}
  /\ \/ m.status # "inProgress" /\ CleanupForItem(m.item)
     \/ m.status = "inProgress" /\ UNCHANGED pending
  /\ UNCHANGED responded

HandleResolved_KeepsPending(m) ==
  /\ m.method = "serverRequest/resolved"
  /\ responded' = responded \ {Normalized[m.wire]}
  /\ UNCHANGED <<pending, itemsById>>

HandleResolved(m) ==
  /\ m.method = "serverRequest/resolved"
  /\ pending' = [pending EXCEPT ![Normalized[m.wire]] = NoWire]
  /\ responded' = responded \ {Normalized[m.wire]}
  /\ UNCHANGED itemsById

(* A completed turn is reported and leaves what is pending as it is. *)
HandleTurnCompleted(m) ==
  /\ m.method = "turn/completed"
  /\ UNCHANGED brokerVars

HandleMessage(m) ==
  \/ HandleApproval(m)
  \/ HandleItemStarted(m)
  \/ HandleItemCompleted(m)
  \/ HandleResolved(m)
  \/ HandleTurnCompleted(m)

(***************************************************************************)
(* send_decision(r, d) with a decision build_broker_response accepts: the  *)
(* approval leaves pending and the id is remembered as responded.  A       *)
(* request that is not pending raises ValueError and changes nothing.      *)
(***************************************************************************)
SendDecision_KeepsPending(r) ==
  /\ pending[r] # NoWire
  /\ responded' = responded \cup {r}
  /\ UNCHANGED <<pending, itemsById>>

SendDecision(r) ==
  /\ pending[r] # NoWire
  /\ pending' = [pending EXCEPT ![r] = NoWire]
  /\ responded' = responded \cup {r}
  /\ UNCHANGED itemsById

(* send_decision(r, d) with a decision build_broker_response refuses: it    *)
(* raises ValueError, and the approval has left pending before it does.    *)
SendInvalidDecision(r) ==
  /\ pending[r] # NoWire
  /\ pending' = [pending EXCEPT ![r] = NoWire]
  /\ UNCHANGED <<responded, itemsById>>

=============================================================================
