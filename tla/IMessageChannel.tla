-------------------------- MODULE IMessageChannel --------------------------
(***************************************************************************)
(* The broker service with an iMessage handle: in every pass of its loop   *)
(* run_broker_service tells the operator of a new approval with a message  *)
(* (send_imessage), reads the newest messages of the Messages database     *)
(* (poll_imessages) and answers Codex with the decisions it finds in those *)
(* it has not seen (find_response_messages), while broker-respond          *)
(* processes queue decisions for the same approvals.  The database belongs *)
(* to the Messages app (external) and survives every run; what the service *)
(* has notified and seen it forgets with the run.                          *)
(***************************************************************************)
EXTENDS BrokerServiceProperties

CONSTANTS
  Limit,        \* imessage_poll_limit
  MaxChat,      \* bound: messages in the database
  Malformed     \* whether the operator may send JSON with a decision that is none

ASSUME IMessageAssumption ==
  Limit \in Nat \ {0} /\ MaxChat \in Nat /\ Malformed \in BOOLEAN

VARIABLES
  chat,         \* the messages of the handle, the newest last
  im,           \* what the pass does next, once it has read from Codex
  emitted,      \* the approvals this pass has read
  notified,     \* notified_request_ids
  seen,         \* seen_imessage_keys: places in chat
  replies       \* parsed_responses

imMemory == <<im, emitted, notified, seen, replies>>
imVars == <<chat, imMemory>>
allVars == <<vars, imVars>>

(* A message of the Mac, which find_response_messages skips; one that       *)
(* parse_response_message reads a decision in; and one it raises on.       *)
Notification(r) == [from |-> "mac", response |-> [id |-> r, run |-> run]]
Reply(response) == [from |-> "phone", response |-> response]
BadReply == [from |-> "malformed"]

Chat ==
  [from : {"mac"}, response : [id : RequestIds, run : 0..MaxRuns]]
  \cup [from : {"phone"}, response : Response]
  \cup {BadReply}

IMInit ==
  /\ Init
  /\ chat = <<>>
  /\ im = "idle"
  /\ emitted = {}
  /\ notified = {}
  /\ seen = {}
  /\ replies = <<>>

ForgetMessages ==
  /\ im' = "idle"
  /\ emitted' = {}
  /\ notified' = {}
  /\ seen' = {}
  /\ replies' = <<>>
  /\ UNCHANGED chat

serviceUnchanged ==
  <<brokerVars, codexVars, loop, run, cursor, batch, changed, turnCompleted, fileVars,
    auditVars, client, sent>>

-----------------------------------------------------------------------------
(* The pass has read a message, or none: notifications and replies follow.  *)
ReadAndNotify ==
  /\ ReadMessage
  /\ im' = "notify"
  /\ emitted' = ApprovalsOf(Head(inbound))
  /\ UNCHANGED <<chat, notified, seen, replies>>

NothingToNotify ==
  /\ ReadTimesOut
  /\ im' = "notify"
  /\ emitted' = {}
  /\ UNCHANGED <<chat, notified, seen, replies>>

(* send_imessage: what it returns is not looked at.                        *)
Notify ==
  /\ im = "notify"
  /\ \E r \in emitted \ notified :
       /\ notified' = notified \cup {r}
       /\ \/ Len(chat) < MaxChat /\ chat' = Append(chat, Notification(r))
          \/ UNCHANGED chat
  /\ UNCHANGED <<serviceUnchanged, im, emitted, seen, replies>>

Notified ==
  /\ im = "notify"
  /\ emitted \subseteq notified
  /\ im' = "poll"
  /\ UNCHANGED <<serviceUnchanged, chat, emitted, notified, seen, replies>>

(* The rows of the query: the newest Limit of the handle. *)
Polled_Oldest == {k \in DOMAIN chat : k <= Limit}
Polled == {k \in DOMAIN chat : k > Len(chat) - Limit}

(* What poll_imessages returns and the run has not seen, newest first: the  *)
(* n-th place has n - 1 newer ones.  A repeated decision stays in the list  *)
(* and is dropped later, as its request is not pending any more.           *)
UnseenPlaces == {k \in Polled \ seen : chat[k].from = "phone"}
NthNewest(S, n) == CHOOSE k \in S : Cardinality({j \in S : j >= k}) = n
Unseen == [n \in 1..Cardinality(UnseenPlaces) |-> NthNewest(UnseenPlaces, n)]

Poll ==
  /\ im = "poll"
  /\ \A k \in Polled \ seen : chat[k] # BadReply
  /\ seen' = seen \cup Polled
  /\ replies' = [n \in DOMAIN Unseen |-> chat[Unseen[n]].response]
  /\ im' = "answer"
  /\ UNCHANGED <<serviceUnchanged, chat, emitted, notified>>

(* The database cannot be read: status "error", and the pass goes on.      *)
PollFails ==
  /\ im = "poll"
  /\ im' = "idle"
  /\ UNCHANGED <<serviceUnchanged, chat, emitted, notified, seen, replies>>

(* parse_response_message raises ValueError out of the loop. *)
PollRaises ==
  /\ im = "poll"
  /\ \E k \in Polled \ seen : chat[k] = BadReply
  /\ CloseChild
  /\ loop' = "failed"
  /\ im' = "idle"
  /\ UNCHANGED <<brokerVars, run, cursor, batch, changed, turnCompleted, fileVars,
                 auditVars, client, sent, chat, emitted, notified, seen, replies>>

(* A decision for a request that is pending: send_decision, send_response. *)
AnswerReply ==
  /\ im = "answer" /\ replies # <<>>
  /\ LET response == Head(replies) IN
       /\ SendDecision(response.id)
       /\ SendLine([wire |-> pending[response.id], decision |-> response.decision])
       /\ sent' = Append(sent, [wire |-> pending[response.id], response |-> response])
  /\ im' = "record"
  /\ UNCHANGED <<turnVars, serviceVars, fileVars, auditVars, client,
                 chat, emitted, notified, seen, replies>>

AnswerReplyFails ==
  /\ im = "answer" /\ replies # <<>>
  /\ SendDecision(Head(replies).id)
  /\ ~running
  /\ CloseChild
  /\ loop' = "failed"
  /\ im' = "idle"
  /\ UNCHANGED <<run, cursor, batch, changed, turnCompleted, fileVars, auditVars, client,
                 sent, chat, emitted, notified, seen, replies>>

RecordReply_Skipped ==
  /\ im = "record"
  /\ changed' = TRUE
  /\ replies' = Tail(replies)
  /\ im' = "answer"
  /\ UNCHANGED <<brokerVars, codexVars, loop, run, cursor, batch, turnCompleted, fileVars,
                 auditVars, client, sent, chat, emitted, notified, seen>>

RecordReply ==
  /\ im = "record"
  /\ decisionsLog' =
       Append(decisionsLog, [id |-> Head(replies).id, decision |-> Head(replies).decision])
  /\ changed' = TRUE
  /\ replies' = Tail(replies)
  /\ im' = "answer"
  /\ UNCHANGED <<brokerVars, codexVars, loop, run, cursor, batch, turnCompleted, fileVars,
                 approvalsLog, resolutionsLog, pastAudit, client, sent,
                 chat, emitted, notified, seen>>

DropReply_Unpublished ==
  /\ im = "answer" /\ replies # <<>>
  /\ Head(replies).id \notin stateFile.pending
  /\ replies' = Tail(replies)
  /\ UNCHANGED <<serviceUnchanged, chat, im, emitted, notified, seen>>

(* Any other decision is dropped, without a record. *)
DropReply ==
  /\ im = "answer" /\ replies # <<>>
  /\ Head(replies).id \notin PendingIds
  /\ replies' = Tail(replies)
  /\ UNCHANGED <<serviceUnchanged, chat, im, emitted, notified, seen>>

RepliesDone ==
  /\ im = "answer" /\ replies = <<>>
  /\ im' = "idle"
  /\ UNCHANGED <<serviceUnchanged, chat, emitted, notified, seen, replies>>

MessageStep ==
  \/ Notify \/ Notified \/ Poll \/ PollRaises
  \/ AnswerReply \/ AnswerReplyFails \/ RecordReply \/ DropReply \/ RepliesDone

(* The rest of the loop, and how it ends. *)
LoopStep ==
  \/ LoadResponses \/ AnswerQueued \/ AnswerFails \/ RecordDecision \/ RejectQueued
  \/ DrainDone \/ Timeout
  \/ im = "idle" /\ (PublishAndContinue \/ PublishAndFinish)

RunStep == WriteStarting \/ Handshake \/ HandshakeFails

IMServiceStep ==
  \/ (LoopStep \/ RunStep) /\ UNCHANGED imVars
  \/ (WriteFinal \/ WriteError) /\ ForgetMessages
  \/ ReadAndNotify \/ NothingToNotify
  \/ MessageStep

-----------------------------------------------------------------------------
(* The operator answers a notification, or types JSON of another shape.     *)
Says ==
  /\ Len(chat) < MaxChat
  /\ \/ \E k \in DOMAIN chat, d \in Decisions :
          /\ chat[k].from = "mac"
          /\ chat' = Append(chat, Reply([id |-> chat[k].response.id, decision |-> d,
                                         run |-> chat[k].response.run]))
     \/ Malformed /\ chat' = Append(chat, BadReply)
  /\ UNCHANGED <<serviceUnchanged, imMemory>>

IMNext ==
  \/ Start /\ UNCHANGED imVars
  \/ IMServiceStep
  \/ PollFails
  \/ Kill /\ ForgetMessages
  \/ (\E c \in Clients : Ask(c) \/ Enqueue(c)) /\ UNCHANGED imVars
  \/ Environment /\ UNCHANGED imVars
  \/ Says

IMSpec == IMInit /\ [][IMNext]_allVars

(* The loop goes on, and a database that is locked at one poll is not at    *)
(* every one: Messages locks it for its own writes only.                   *)
IMFairSpec ==
  /\ IMSpec
  /\ WF_allVars(IMServiceStep)
  /\ SF_allVars(Poll \/ PollRaises)
  /\ \A c \in Clients : WF_allVars(Enqueue(c) /\ UNCHANGED imVars)
  /\ WF_allVars((TakeDecision \/ IgnoreDecision)
                 /\ UNCHANGED <<brokerVars, serviceVars, fileVars, auditVars, client, sent, imVars>>)

-----------------------------------------------------------------------------
IMTypeOK ==
  /\ TypeOK
  /\ chat \in Seq(Chat)
  /\ im \in {"idle", "notify", "poll", "answer", "record"}
  /\ emitted \subseteq RequestIds
  /\ notified \subseteq RequestIds
  /\ seen \subseteq DOMAIN chat
  /\ replies \in Seq(Response)

(***************************************************************************)
(* Whichever way a decision came in, the decisions file lists what Codex   *)
(* was sent, in order, and lags only while the loop is at its record.      *)
(***************************************************************************)
BothChannelsRecorded ==
  LET missing == Len(sent) - Len(decisionsLog) IN
  /\ missing \in {0, 1}
  /\ missing = 1 => loop \notin LoopSteps \/ loop = "audit" \/ im = "record"
  /\ \A k \in DOMAIN decisionsLog :
       decisionsLog[k] = [id |-> sent[k].response.id, decision |-> sent[k].response.decision]

(***************************************************************************)
(* A reply the operator gave to a notification of this run is dropped only *)
(* when Codex no longer waits for it or has an answer: never because it    *)
(* was read before the broker knew the request (the service marks a        *)
(* message seen before it looks whether its request is pending).           *)
(***************************************************************************)
ReplyHonoured ==
  [][DropReply /\ Head(replies).run = run =>
       \A w \in WireIds :
         Normalized[w] = Head(replies).id => codex[w] = "closed" \/ Answered(w)]_allVars

(***************************************************************************)
(* A message is read, unless as many newer ones as the query returns       *)
(* arrive before it is, or the loop ends.                                  *)
(***************************************************************************)
NewestRead ==
  \A n \in 1..MaxChat :
    (InLoop /\ Len(chat) >= n) ~> (~InLoop \/ n \in seen \/ Len(chat) >= n + Limit)

=============================================================================
