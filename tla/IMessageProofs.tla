---------------------------- MODULE IMessageProofs ----------------------------
(***************************************************************************)
(* Proofs about the broker service with an iMessage handle, for every      *)
(* value of the constants: any number of requests, clients, messages and   *)
(* runs, any limit of a poll, with and without malformed replies.          *)
(*                                                                         *)
(* Every step of IMSpec but four is a step of Spec, with the message       *)
(* variables beside it; the four answer a reply, fail to, record the       *)
(* answer, and raise out of the loop.  The invariants of Spec are carried  *)
(* over through them.                                                      *)
(***************************************************************************)
EXTENDS IMessageChannel, BrokerAuditProofs, FiniteSetTheorems, WellFoundedInduction

-----------------------------------------------------------------------------
(* What is left of IMTypeOK. *)
MessageTypeOK ==
  /\ chat \in Seq(Chat)
  /\ im \in {"idle", "notify", "poll", "answer", "record"}
  /\ emitted \subseteq RequestIds
  /\ notified \subseteq RequestIds
  /\ seen \subseteq DOMAIN chat
  /\ replies \in Seq(Response)

(* Messages are looked at between the reading of a line and the publishing *)
(* of the state; while an answer is recorded its reply is still at hand.   *)
Pass ==
  /\ im # "idle" => loop = "publish"
  /\ im = "record" => replies # <<>>

(***************************************************************************)
(* What a message of this run names was asked in this run; no message is   *)
(* of a later one, and what a run reads it forgets.                        *)
(***************************************************************************)
AskedIn(response, thisRun, asked) ==
  response.run <= thisRun /\ (response.run = thisRun => response.id \in asked)

ChatInv ==
  /\ \A k \in DOMAIN chat : chat[k] # BadReply => AskedIn(chat[k].response, run, approvalsLog)
  /\ \A k \in DOMAIN replies : AskedIn(replies[k], run, approvalsLog)
  /\ emitted \subseteq approvalsLog
  /\ loop = "down" => emitted = {} /\ replies = <<>>

(* What is on its way to the App Server was sent in this run. *)
OutboundInv ==
  /\ \A k \in DOMAIN outbound : Answered(outbound[k].wire)
  /\ loop = "down" => outbound = <<>>

(* An answer to a reply, too, is written one step before its record. *)
BothAuditInv ==
  /\ BothChannelsRecorded
  /\ loop = "audit" =>
       /\ Len(sent) = Len(decisionsLog) + 1
       /\ sent[Len(sent)].response = Head(batch)
  /\ im = "record" =>
       /\ Len(sent) = Len(decisionsLog) + 1
       /\ sent[Len(sent)].response = Head(replies)
  /\ loop \in {"starting", "handshake"} => sent = <<>> /\ decisionsLog = <<>>

(* The state file may also lag while an answer to a reply is recorded. *)
IMPublishInv ==
  /\ loop \in {"down", "starting", "handshake"} => turnCompleted = FALSE
  /\ loop = "top" => Current
  /\ loop \in {"drain", "read", "publish"} => changed \/ Current \/ im = "record"

(* What is over has a record, or is about to, from either channel. *)
IMOverIsAccounted ==
  InLoop =>
    \A r \in approvalsLog :
      pending[r] = NoWire =>
        \/ r \in Accounted
        \/ loop = "audit" /\ r = Head(batch).id
        \/ im = "record" /\ r = Head(replies).id

IMRecordsInv == AskedIds /\ OpenIsAsked /\ AccountedIsOver /\ IMOverIsAccounted

-----------------------------------------------------------------------------
(***************************************************************************)
(* The steps.                                                              *)
(***************************************************************************)

(* What goes on beside the loop. *)
Beside == (\E c \in Clients : Ask(c) \/ Enqueue(c)) \/ Environment \/ UNCHANGED vars

LEMMA Unchanging ==
  ASSUME UNCHANGED serviceUnchanged
  PROVE  UNCHANGED vars
  BY DEF serviceUnchanged, vars, serviceVars

LEMMA BesideIsAStep ==
  ASSUME Beside
  PROVE  [Next]_vars /\ UNCHANGED loop
<1>1. ASSUME NEW c \in Clients, Ask(c) \/ Enqueue(c)
      PROVE  UNCHANGED loop
  BY <1>1 DEF Ask, Enqueue, CheckStatus, CheckPending, CheckQueue, AppendResponse,
              ClientUnchanged, serviceVars
<1>2. CASE Environment \/ UNCHANGED vars
  BY <1>2 DEF Environment, vars, serviceVars, Next
<1> QED
  BY <1>1, <1>2 DEF Beside, Next

(* An answer that is not recorded yet waits for nothing but its record. *)
LEMMA StepCases ==
  ASSUME Pass, [IMNext]_allVars
  PROVE  \/ [Next]_vars /\ im # "record" /\ im' # "record"
         \/ im = "record" /\ Beside /\ UNCHANGED <<im, replies, loop>>
         \/ im = "record" /\ im' = "idle" /\ Kill
         \/ AnswerReply \/ AnswerReplyFails \/ RecordReply \/ PollRaises
<1>1. CASE Start /\ UNCHANGED imVars
  BY <1>1 DEF Start, Pass, Next, imVars, imMemory
<1>2. CASE (LoopStep \/ RunStep) /\ UNCHANGED imVars
  <2>1. [Next]_vars
    BY <1>2 DEF LoopStep, RunStep, Next, ServiceStep
  <2>2. im # "record" /\ im' = im
    BY <1>2 DEF LoopStep, RunStep, LoadResponses, AnswerQueued, AnswerFails, RecordDecision,
                RejectQueued, DrainDone, Timeout, WriteStarting, Handshake, HandshakeFails,
                Pass, imVars, imMemory
  <2> QED
    BY <2>1, <2>2
<1>3. CASE (WriteFinal \/ WriteError) /\ ForgetMessages
  BY <1>3 DEF WriteFinal, WriteError, ForgetMessages, Pass, Next, ServiceStep
<1>4. CASE ReadAndNotify \/ NothingToNotify
  BY <1>4 DEF ReadAndNotify, NothingToNotify, ReadMessage, ReadTimesOut, Pass, Next, ServiceStep
<1>5. CASE Notify \/ Notified \/ Poll \/ PollFails
  BY <1>5, Unchanging DEF Notify, Notified, Poll, PollFails
<1>6. CASE DropReply \/ RepliesDone
  BY <1>6, Unchanging DEF DropReply, RepliesDone
<1>7. CASE Kill /\ ForgetMessages
  BY <1>7 DEF ForgetMessages, Next
<1>8. CASE (\E c \in Clients : Ask(c) \/ Enqueue(c)) /\ UNCHANGED imVars
  <2>1. Beside
    BY <1>8 DEF Beside
  <2> QED
    BY <1>8, <2>1, BesideIsAStep DEF imVars, imMemory
<1>9. CASE Environment /\ UNCHANGED imVars
  <2>1. Beside
    BY <1>9 DEF Beside
  <2> QED
    BY <1>9, <2>1, BesideIsAStep DEF imVars, imMemory
<1>10. CASE Says
  <2>1. Beside /\ UNCHANGED imMemory
    BY <1>10, Unchanging DEF Says, Beside
  <2> QED
    BY <2>1, BesideIsAStep DEF imMemory
<1>11. CASE UNCHANGED allVars
  <2>1. Beside /\ UNCHANGED imMemory
    BY <1>11 DEF Beside, allVars, imVars
  <2> QED
    BY <2>1, BesideIsAStep DEF imMemory
<1> QED
  BY <1>1, <1>2, <1>3, <1>4, <1>5, <1>6, <1>7, <1>8, <1>9, <1>10, <1>11
     DEF IMNext, IMServiceStep, MessageStep

LEMMA ServiceOrReply ==
  ASSUME Pass, [IMNext]_allVars
  PROVE  [Next]_vars \/ AnswerReply \/ AnswerReplyFails \/ RecordReply \/ PollRaises
  BY StepCases, BesideIsAStep DEF Next

(* The loop's part of the four steps. *)
LEMMA ReplyAnswers ==
  ASSUME MessageTypeOK, Pass, AnswerReply
  PROVE  /\ Head(replies) \in Response /\ Answers(Head(replies))
         /\ UNCHANGED <<serviceVars, fileVars, auditVars, client>>
<1>1. Head(replies) \in Response
  BY HeadTailProperties DEF AnswerReply, MessageTypeOK
<1>2. loop = "publish" /\ UNCHANGED <<turnVars, serviceVars, fileVars, auditVars, client>>
  BY DEF AnswerReply, Pass
<1> QED
  BY <1>1, <1>2 DEF AnswerReply, Answers, InLoop, LoopSteps, serviceVars

LEMMA ReplyRaises ==
  ASSUME TypeInv, MessageTypeOK, AnswerReplyFails \/ PollRaises
  PROVE  /\ CloseChild /\ loop' = "failed" /\ BrokerTypeOK'
         /\ UNCHANGED <<run, cursor, batch, changed, turnCompleted, fileVars, auditVars, client,
                        sent>>
         /\ \A r \in RequestIds : pending'[r] = pending[r] \/ pending'[r] = NoWire
<1>1. CASE AnswerReplyFails
  <2>1. Head(replies) \in Response
    BY <1>1, HeadTailProperties DEF AnswerReplyFails, MessageTypeOK
  <2>2. Head(replies).id \in RequestIds
    BY <2>1 DEF Response
  <2>3. BrokerTypeOK'
    BY <1>1, <2>2, BrokerTypes DEF AnswerReplyFails, TypeInv
  <2> QED
    BY <1>1, <2>2, <2>3 DEF AnswerReplyFails, SendDecision, TypeInv, BrokerTypeOK
<1>2. CASE PollRaises
  BY <1>2, BrokerTypes DEF PollRaises, TypeInv, brokerVars
<1> QED
  BY <1>1, <1>2

LEMMA ReplyRecorded ==
  ASSUME MessageTypeOK, Pass, RecordReply
  PROVE  /\ Head(replies) \in Response
         /\ UNCHANGED <<brokerVars, codexVars, loop, run, cursor, batch, turnCompleted, fileVars,
                        approvalsLog, resolutionsLog, pastAudit, client, sent>>
         /\ changed' = TRUE
         /\ decisionsLog' = Append(decisionsLog,
                                   [id |-> Head(replies).id, decision |-> Head(replies).decision])
  BY HeadTailProperties DEF RecordReply, Pass, MessageTypeOK

-----------------------------------------------------------------------------
(***************************************************************************)
(* The order of the replies: every place that has not been seen has a rank *)
(* among them, so that Unseen lists places of the database.                *)
(***************************************************************************)
Before == {pair \in Nat \X Nat : pair[1] < pair[2]}

LEMMA LeastPlace ==
  ASSUME NEW T \in SUBSET Nat, T # {}
  PROVE  \E n \in T : \A k \in T : n <= k
<1>1. IsWellFoundedOn(Before, Nat)
  BY NatLessThanWellFounded DEF OpToRel, Before
<1>2. PICK n \in T : \A k \in T : ~(<<k, n>> \in Before)
  BY <1>1, WFMin
<1>3. \A k \in T : ~(k < n)
  BY <1>2 DEF Before
<1> QED
  BY <1>3

(* Counting down from above S, the count of what is passed grows by one at *)
(* each member: at one of them it comes to n.                              *)
LEMMA RankExists ==
  ASSUME NEW N \in Nat, NEW S \in SUBSET (1..N), NEW n \in 1..Cardinality(S)
  PROVE  \E k \in S : Cardinality({j \in S : j >= k}) = n
<1> DEFINE Up(k) == {j \in S : j >= k}
           Few == {k \in Nat : Cardinality(Up(k)) < n}
<1>1. IsFiniteSet(S)
  <2>1. IsFiniteSet(1..N)
    BY FS_Interval
  <2> QED
    BY <2>1, FS_Subset
<1>2. \A j \in S : j \in Nat /\ 1 <= j /\ j <= N
  OBVIOUS
<1>3. \A k \in Nat : IsFiniteSet(Up(k)) /\ Cardinality(Up(k)) \in Nat
  <2>1. \A k \in Nat : Up(k) \in SUBSET S
    OBVIOUS
  <2> HIDE DEF Up
  <2> QED
    BY <1>1, <2>1, FS_Subset, FS_CardinalityType
<1>4. n \in Nat /\ 1 <= n /\ n <= Cardinality(S)
  <2>1. Cardinality(S) \in Nat
    BY <1>1, FS_CardinalityType
  <2> QED
    BY <2>1
<1>5. N + 1 \in Few
  <2>0. \A j \in S : ~(j >= N + 1)
    BY <1>2
  <2>1. Up(N + 1) = {}
    BY <2>0
  <2>2. Cardinality(Up(N + 1)) = 0
    BY <2>1, FS_EmptySet
  <2> QED
    BY <1>4, <2>2
<1>6. PICK k \in Few : \A j \in Few : k <= j
  <2>1. Few \in SUBSET Nat /\ Few # {}
    BY <1>5
  <2> HIDE DEF Few
  <2> QED
    BY <2>1, LeastPlace
<1>7. k \in Nat /\ Cardinality(Up(k)) < n
  BY <1>6
<1>8. k # 0
  <2>0. \A j \in S : j >= 0
    BY <1>2
  <2>1. Up(0) = S
    BY <2>0
  <2>2. ~(Cardinality(Up(0)) < n)
    <3> HIDE DEF Up
    <3> QED
      BY <1>1, <1>4, <2>1, FS_CardinalityType
  <2> QED
    BY <1>7, <2>2
<1>9. k - 1 \in Nat /\ ~(Cardinality(Up(k - 1)) < n)
  <2>1. k - 1 \in Nat /\ ~(k <= k - 1)
    BY <1>7, <1>8
  <2>2. k - 1 \notin Few
    <3> HIDE DEF Few
    <3> QED
      BY <1>6, <2>1
  <2> QED
    BY <2>1, <2>2
<1>10. \A j \in S : j >= k - 1 <=> j >= k \/ j = k - 1
  BY <1>2, <1>7
<1>11. k - 1 \in S
  <2>1. ASSUME k - 1 \notin S
        PROVE  Up(k - 1) = Up(k)
    BY <1>10, <2>1
  <2> HIDE DEF Up
  <2> QED
    BY <1>7, <1>9, <2>1
<1>12. Cardinality(Up(k - 1)) = Cardinality(Up(k)) + 1
  <2>1. Up(k - 1) = Up(k) \cup {k - 1}
    BY <1>10, <1>11
  <2>2. k - 1 \notin Up(k)
    BY <1>7
  <2> HIDE DEF Up
  <2> QED
    BY <1>3, <1>7, <2>1, <2>2, FS_AddElement
<1>13. Cardinality(Up(k - 1)) = n
  <2> HIDE DEF Up
  <2> QED
    BY <1>3, <1>4, <1>7, <1>9, <1>12
<1> QED
  BY <1>11, <1>13

(* A poll lists places of the database whose messages are replies. *)
LEMMA UnseenReplies ==
  ASSUME MessageTypeOK, NEW n \in DOMAIN Unseen
  PROVE  /\ Unseen[n] \in DOMAIN chat
         /\ chat[Unseen[n]].from = "phone"
         /\ chat[Unseen[n]] # BadReply
         /\ chat[Unseen[n]].response \in Response
<1>1. UnseenPlaces \subseteq 1..Len(chat) /\ Len(chat) \in Nat
  BY DEF UnseenPlaces, Polled, MessageTypeOK
<1>2. n \in 1..Cardinality(UnseenPlaces) /\ Unseen[n] = NthNewest(UnseenPlaces, n)
  BY DEF Unseen
<1>3. \E k \in UnseenPlaces : Cardinality({j \in UnseenPlaces : j >= k}) = n
  <2>1. UnseenPlaces \in SUBSET (1..Len(chat))
    BY <1>1
  <2> QED
    BY <1>1, <1>2, <2>1, RankExists
<1>4. Unseen[n] \in UnseenPlaces
  BY <1>2, <1>3 DEF NthNewest
<1>5. Unseen[n] \in DOMAIN chat /\ chat[Unseen[n]].from = "phone"
  BY <1>4 DEF UnseenPlaces, Polled
<1>6. chat[Unseen[n]] \in Chat
  BY <1>5 DEF MessageTypeOK
<1> QED
  BY <1>5, <1>6 DEF Chat, BadReply

LEMMA UnseenIsFinite ==
  ASSUME MessageTypeOK
  PROVE  \E n \in Nat : DOMAIN Unseen = 1..n
<1>1. UnseenPlaces \in SUBSET (1..Len(chat)) /\ Len(chat) \in Nat
  BY DEF UnseenPlaces, Polled, MessageTypeOK
<1>2. IsFiniteSet(UnseenPlaces)
  <2>1. IsFiniteSet(1..Len(chat))
    BY <1>1, FS_Interval
  <2> QED
    BY <1>1, <2>1, FS_Subset
<1> QED
  BY <1>2, FS_CardinalityType DEF Unseen

-----------------------------------------------------------------------------
(***************************************************************************)
(* Types.                                                                  *)
(***************************************************************************)

LEMMA IMServiceTypes ==
  ASSUME TypeInv, MessageTypeOK, Pass, [IMNext]_allVars
  PROVE  TypeInv'
<1>1. CASE [Next]_vars
  BY <1>1, TypeStep
<1>2. CASE AnswerReply
  <2>1. /\ BrokerTypeOK' /\ CodexTypeOK'
        /\ sent' \in Seq([wire : WireIds, response : Response])
        /\ UNCHANGED <<serviceVars, fileVars, auditVars, client>>
    BY <1>2, ReplyAnswers, AnswerTypes
  <2>2. ServiceTypeOK' /\ FilesTypeOK' /\ AuditTypeOK'
    BY <2>1 DEF TypeInv, ServiceTypeOK, FilesTypeOK, AuditTypeOK, serviceVars, fileVars, auditVars
  <2> QED
    BY <2>1, <2>2 DEF TypeInv
<1>3. CASE AnswerReplyFails \/ PollRaises
  <2>1. BrokerTypeOK' /\ CodexTypeOK'
    BY <1>3, ReplyRaises, CodexTypes DEF TypeInv
  <2>2. ServiceTypeOK' /\ FilesTypeOK' /\ AuditTypeOK'
    BY <1>3, ReplyRaises
       DEF TypeInv, ServiceTypeOK, ServiceSteps, FilesTypeOK, AuditTypeOK, fileVars, auditVars
  <2> QED
    BY <2>1, <2>2 DEF TypeInv
<1>4. CASE RecordReply
  <2>1. BrokerTypeOK' /\ CodexTypeOK'
    BY <1>4, ReplyRecorded, BrokerTypes, CodexTypes DEF TypeInv
  <2>2. changed' \in BOOLEAN
    BY <1>4, ReplyRecorded
  <2>3. ServiceTypeOK' /\ FilesTypeOK'
    BY <1>4, <2>2, ReplyRecorded DEF TypeInv, ServiceTypeOK, FilesTypeOK, fileVars
  <2>4. [id |-> Head(replies).id, decision |-> Head(replies).decision]
          \in [id : RequestIds, decision : Decisions]
    BY <1>4, ReplyRecorded DEF Response
  <2>5. decisionsLog' \in Seq([id : RequestIds, decision : Decisions])
    <3>1. decisionsLog' = Append(decisionsLog,
                                 [id |-> Head(replies).id, decision |-> Head(replies).decision])
      BY <1>4, ReplyRecorded
    <3> QED
      BY <2>4, <3>1 DEF TypeInv, AuditTypeOK
  <2>6. UNCHANGED <<approvalsLog, resolutionsLog, pastAudit, sent>>
    BY <1>4, ReplyRecorded
  <2>7. AuditTypeOK'
    BY <2>5, <2>6 DEF TypeInv, AuditTypeOK
  <2> QED
    BY <2>1, <2>3, <2>7 DEF TypeInv
<1> QED
  BY <1>1, <1>2, <1>3, <1>4, ServiceOrReply

(* A message more, at the end. *)
LEMMA ChatGrows ==
  ASSUME MessageTypeOK, NEW message \in Chat, chat' = Append(chat, message)
  PROVE  /\ chat' \in Seq(Chat) /\ DOMAIN chat \subseteq DOMAIN chat'
         /\ \A k \in DOMAIN chat' :
              (k \in DOMAIN chat /\ chat'[k] = chat[k]) \/ chat'[k] = message
  BY DEF MessageTypeOK

LEMMA NotificationsAreChat ==
  ASSUME TypeInv, NEW r \in RequestIds
  PROVE  Notification(r) \in Chat
  BY DEF Notification, Chat, TypeInv, ServiceTypeOK

(* What the operator says answers a notification, or is malformed. *)
LEMMA Said ==
  ASSUME MessageTypeOK, Says
  PROVE  \E message \in Chat :
           /\ chat' = Append(chat, message)
           /\ message # BadReply =>
                \E k \in DOMAIN chat :
                  /\ chat[k] # BadReply
                  /\ message.response.id = chat[k].response.id
                  /\ message.response.run = chat[k].response.run
<1>1. CASE chat' = Append(chat, BadReply)
  BY <1>1 DEF Chat
<1>2. ASSUME NEW k \in DOMAIN chat, NEW d \in Decisions, chat[k].from = "mac",
             chat' = Append(chat, Reply([id |-> chat[k].response.id, decision |-> d,
                                         run |-> chat[k].response.run]))
      PROVE  \E message \in Chat :
               /\ chat' = Append(chat, message)
               /\ message.response.id = chat[k].response.id
               /\ message.response.run = chat[k].response.run
  <2> DEFINE response == [id |-> chat[k].response.id, decision |-> d,
                          run |-> chat[k].response.run]
  <2>1. chat[k] \in Chat
    BY DEF MessageTypeOK
  <2>2. chat[k] \in [from : {"mac"}, response : [id : RequestIds, run : 0..MaxRuns]]
    BY <1>2, <2>1 DEF Chat, BadReply
  <2>3. chat[k].response.id \in RequestIds /\ chat[k].response.run \in 0..MaxRuns
    BY <2>2
  <2>4. response \in Response
    BY <2>3 DEF Response
  <2>5. Reply(response) \in Chat
    BY <2>4 DEF Reply, Chat
  <2>6. Reply(response).response = response
    BY DEF Reply
  <2> QED
    BY <1>2, <2>5, <2>6
<1>3. \A k \in DOMAIN chat : chat[k].from = "mac" => chat[k] # BadReply
  BY DEF BadReply
<1> QED
  BY <1>1, <1>2, <1>3 DEF Says

LEMMA RepliesType ==
  ASSUME MessageTypeOK, Poll
  PROVE  replies' \in Seq(Response)
<1>1. PICK n \in Nat : DOMAIN Unseen = 1..n
  BY UnseenIsFinite
<1>2. \A j \in 1..n : chat[Unseen[j]].response \in Response
  BY <1>1, UnseenReplies
<1>3. replies' = [j \in 1..n |-> chat[Unseen[j]].response]
  BY <1>1 DEF Poll
<1>4. replies' \in [1..n -> Response]
  BY <1>2, <1>3
<1> QED
  BY <1>1, <1>4

LEMMA MessageTypeStep ==
  ASSUME TypeInv, MessageTypeOK, Pass, [IMNext]_allVars
  PROVE  MessageTypeOK'
<1>1. CASE UNCHANGED imVars
  BY <1>1 DEF imVars, imMemory, MessageTypeOK
<1>2. CASE ForgetMessages
  BY <1>2 DEF ForgetMessages, MessageTypeOK
<1>3. CASE ReadAndNotify \/ NothingToNotify
  <2>1. ASSUME ReadAndNotify
        PROVE  ApprovalsOf(Head(inbound)) \subseteq RequestIds
    <3>1. Head(inbound) \in Message
      BY <2>1, HeadTailProperties
         DEF ReadAndNotify, ReadMessage, ReadLine, TypeInv, CodexTypeOK, PipeTypeOK
    <3> QED
      BY <3>1, NormalizedAssumption DEF ApprovalsOf, Message, ApprovalMsg, ResolvedMsg, StartedMsg,
                                        CompletedMsg, TurnMsg
  <2> QED
    BY <1>3, <2>1 DEF ReadAndNotify, NothingToNotify, MessageTypeOK
<1>4. CASE Notify
  <2>1. PICK r \in emitted : /\ notified' = notified \cup {r}
                             /\ chat' = Append(chat, Notification(r)) \/ UNCHANGED chat
                             /\ UNCHANGED <<im, emitted, seen, replies>>
    BY <1>4 DEF Notify
  <2>2. r \in RequestIds
    BY DEF MessageTypeOK
  <2> QED
    BY <2>1, <2>2, ChatGrows, NotificationsAreChat DEF MessageTypeOK
<1>5. CASE Notified \/ PollFails \/ PollRaises \/ RepliesDone
  BY <1>5 DEF Notified, PollFails, PollRaises, RepliesDone, MessageTypeOK
<1>6. CASE AnswerReply \/ AnswerReplyFails
  BY <1>6 DEF AnswerReply, AnswerReplyFails, MessageTypeOK
<1>7. CASE Poll
  BY <1>7, RepliesType DEF Poll, Polled, MessageTypeOK
<1>8. CASE RecordReply
  <2>1. /\ im' = "answer" /\ replies' = Tail(replies) /\ replies # <<>>
        /\ UNCHANGED <<chat, emitted, notified, seen>>
    BY <1>8 DEF RecordReply, Pass
  <2>2. replies' \in Seq(Response)
    BY <2>1, HeadTailProperties DEF MessageTypeOK
  <2> QED
    BY <2>1, <2>2 DEF MessageTypeOK
<1>9. CASE DropReply
  <2>1. replies' = Tail(replies) /\ replies # <<>> /\ UNCHANGED <<chat, im, emitted, notified, seen>>
    BY <1>9 DEF DropReply
  <2>2. replies' \in Seq(Response)
    BY <2>1, HeadTailProperties DEF MessageTypeOK
  <2> QED
    BY <2>1, <2>2 DEF MessageTypeOK
<1>10. CASE Says
  <2>1. UNCHANGED imMemory
    BY <1>10 DEF Says
  <2> QED
    BY <1>10, <2>1, Said, ChatGrows DEF MessageTypeOK, imMemory
<1>11. CASE UNCHANGED allVars
  BY <1>1, <1>11 DEF allVars
<1> QED
  BY <1>1, <1>2, <1>3, <1>4, <1>5, <1>6, <1>7, <1>8, <1>9, <1>10, <1>11
     DEF IMNext, IMServiceStep, MessageStep

LEMMA PassStep ==
  ASSUME Pass, [IMNext]_allVars
  PROVE  Pass'
<1>1. CASE UNCHANGED imVars /\ ((LoopStep \/ RunStep) \/ Start)
  <2>1. im = "idle" \/ UNCHANGED loop
    BY <1>1 DEF LoopStep, RunStep, Start, Pass, LoadResponses, AnswerQueued, AnswerFails,
                RecordDecision, RejectQueued, DrainDone, Timeout, WriteStarting, Handshake,
                HandshakeFails
  <2> QED
    BY <1>1, <2>1 DEF Pass, imVars, imMemory
<1>2. CASE ForgetMessages \/ PollFails \/ PollRaises \/ RepliesDone \/ AnswerReplyFails
  BY <1>2 DEF ForgetMessages, PollFails, PollRaises, RepliesDone, AnswerReplyFails, Pass
<1>3. CASE ReadAndNotify \/ NothingToNotify
  BY <1>3 DEF ReadAndNotify, NothingToNotify, ReadMessage, ReadTimesOut, Pass
<1>4. CASE Notify \/ Notified \/ Poll \/ DropReply
  BY <1>4 DEF Notify, Notified, Poll, DropReply, serviceUnchanged, Pass
<1>5. CASE AnswerReply \/ RecordReply
  BY <1>5 DEF AnswerReply, RecordReply, serviceVars, Pass
<1>6. CASE Beside /\ UNCHANGED imMemory
  BY <1>6, BesideIsAStep DEF Pass, imMemory
<1>7. CASE Says
  BY <1>6, <1>7, Unchanging DEF Says, Beside
<1>8. CASE UNCHANGED allVars
  BY <1>6, <1>8 DEF allVars, imVars, Beside
<1>9. CASE ((\E c \in Clients : Ask(c) \/ Enqueue(c)) \/ Environment) /\ UNCHANGED imVars
  BY <1>6, <1>9 DEF imVars, Beside
<1> QED
  BY <1>1, <1>2, <1>3, <1>4, <1>5, <1>7, <1>8, <1>9 DEF IMNext, IMServiceStep, MessageStep

LEMMA IMTypeInit == IMInit => TypeInv /\ MessageTypeOK /\ Pass
  BY TypeInit DEF IMInit, MessageTypeOK, Pass

(***************************************************************************)
(* The messages, what a run remembers of them and the replies it is at     *)
(* keep their types, and so does everything the service keeps without      *)
(* them, for any constants.                                                *)
(***************************************************************************)
THEOREM IMTypes == IMSpec => []IMTypeOK
<1> DEFINE Inv == TypeInv /\ MessageTypeOK /\ Pass
<1>1. Inv /\ [IMNext]_allVars => Inv'
  BY IMServiceTypes, MessageTypeStep, PassStep
<1>2. Inv => IMTypeOK
  BY TypeInvImplies DEF IMTypeOK, MessageTypeOK
<1> QED
  BY <1>1, <1>2, IMTypeInit, PTL DEF IMSpec

-----------------------------------------------------------------------------
(***************************************************************************)
(* What the broker and Codex know of each other holds whichever way the    *)
(* decisions come in.                                                      *)
(***************************************************************************)

(* The loop is at the end of a pass when it answers a reply and records it. *)
LEMMA ReplyInLoop ==
  ASSUME Pass, AnswerReply \/ RecordReply
  PROVE  loop = "publish" /\ loop' = "publish" /\ InLoop /\ InLoop'
  BY DEF AnswerReply, RecordReply, serviceVars, Pass, InLoop, LoopSteps

LEMMA IMPhases ==
  ASSUME TypeInv, MessageTypeOK, Pass, Phases, [IMNext]_allVars
  PROVE  Phases'
<1>1. CASE [Next]_vars
  BY <1>1, PhasesStep
<1>2. CASE AnswerReply \/ RecordReply
  BY <1>2, ReplyInLoop DEF Phases
<1>3. CASE AnswerReplyFails \/ PollRaises
  BY <1>3, ReplyRaises DEF Phases, NoChild, CloseChild, ResetTurn, ClosePipes
<1> QED
  BY <1>1, <1>2, <1>3, ServiceOrReply

LEMMA IMKnown ==
  ASSUME TypeInv, MessageTypeOK, Pass, Phases, Known, [IMNext]_allVars
  PROVE  Known'
<1>1. CASE [Next]_vars
  BY <1>1, KnownStep
<1>2. CASE AnswerReply
  BY <1>2, ReplyAnswers, KnownAnswered
<1>3. CASE AnswerReplyFails \/ PollRaises
  <2>1. /\ ~InLoop' /\ inbound' = <<>> /\ UNCHANGED <<approvalsLog, sent>>
        /\ \A r \in RequestIds : pending'[r] = pending[r] \/ pending'[r] = NoWire
    BY <1>3, ReplyRaises DEF InLoop, LoopSteps, CloseChild, ClosePipes, auditVars
  <2> QED
    BY <2>1, KnownClosed
<1>4. CASE RecordReply
  <2>1. UNCHANGED knownVars /\ InLoop
    BY <1>4, ReplyRecorded, ReplyInLoop
       DEF knownVars, brokerVars, codexVars, turnVars, pipeVars
  <2> QED
    BY <2>1, KnownUnchanged
<1> QED
  BY <1>1, <1>2, <1>3, <1>4, ServiceOrReply

LEMMA IMPipe ==
  ASSUME TypeInv, MessageTypeOK, Pass, Known, PipeInv, [IMNext]_allVars
  PROVE  PipeInv'
<1>1. CASE [Next]_vars
  BY <1>1, PipeStep
<1>2. CASE AnswerReply
  BY <1>2, ReplyAnswers, PipeUnchanged DEF Answers, SendLine, turnVars
<1>3. CASE AnswerReplyFails \/ PollRaises
  BY <1>3, ReplyRaises, PipeClosed
<1>4. CASE RecordReply
  BY <1>4, ReplyRecorded, PipeUnchanged DEF codexVars, turnVars, pipeVars
<1> QED
  BY <1>1, <1>2, <1>3, <1>4, ServiceOrReply

LEMMA IMAgreed ==
  ASSUME TypeInv, MessageTypeOK, Pass, Phases, Known, PipeInv, Agreed, [IMNext]_allVars
  PROVE  Agreed'
<1>1. CASE [Next]_vars
  BY <1>1, AgreedStep
<1>2. CASE AnswerReply
  BY <1>2, ReplyAnswers, AgreedAnswered
<1>3. CASE AnswerReplyFails \/ PollRaises
  <2>1. ~InLoop'
    BY <1>3, ReplyRaises DEF InLoop, LoopSteps
  <2> QED
    BY <2>1 DEF Agreed, Kept, NoGhost
<1>4. CASE RecordReply
  BY <1>4, ReplyRecorded, ReplyInLoop, AgreedUnchanged
     DEF brokerVars, codexVars, turnVars, pipeVars
<1> QED
  BY <1>1, <1>2, <1>3, <1>4, ServiceOrReply

IMAgreeInv ==
  TypeInv /\ MessageTypeOK /\ Pass /\ Phases /\ Known /\ PipeInv /\ Agreed

LEMMA IMInductive == IMSpec => []IMAgreeInv
<1>1. IMInit => IMAgreeInv
  <2>1. Init => Agreed
    BY DEF Init, InLoop, LoopSteps, Agreed, Kept, NoGhost
  <2> QED
    BY <2>1, IMTypeInit, KnownInit, PipeInit DEF IMInit, IMAgreeInv
<1>2. IMAgreeInv /\ [IMNext]_allVars => IMAgreeInv'
  BY IMServiceTypes, MessageTypeStep, PassStep, IMPhases, IMKnown, IMPipe, IMAgreed
     DEF IMAgreeInv
<1> QED
  BY <1>1, <1>2, PTL DEF IMSpec

(***************************************************************************)
(* With an iMessage handle, too, Codex is sent at most one decision for a  *)
(* request: a reply and a queued response never answer the same one.       *)
(***************************************************************************)
THEOREM IMAnsweredOnce == IMSpec => []AtMostOneAnswer
<1>1. IMAgreeInv => AtMostOneAnswer
  BY DEF IMAgreeInv, Known
<1> QED
  BY <1>1, IMInductive, PTL

(***************************************************************************)
(* The service with an iMessage handle implements the ledger: whichever    *)
(* way decisions come in, a request is decided once or closed undecided.   *)
(***************************************************************************)
THEOREM IMLedgerImplemented == IMSpec => ImplementsLedger
<1>1. ASSUME IMAgreeInv, [IMNext]_allVars
      PROVE  [Ledger!LedgerNext]_(Ledger!ledger)
  <2> USE <1>1 DEF IMAgreeInv
  <2>1. CASE [Next]_vars
    BY <2>1, LedgerStep
  <2>2. CASE AnswerReply
    BY <2>2, ReplyAnswers, LedgerDecides DEF Ledger!LedgerNext
  <2>3. CASE AnswerReplyFails \/ PollRaises
    <3>1. /\ UNCHANGED <<approvalsLog, sent>>
          /\ \A r \in RequestIds : pending'[r] = pending[r] \/ pending'[r] = NoWire
      BY <2>3, ReplyRaises DEF auditVars
    <3> QED
      BY <3>1, LedgerCloses DEF Ledger!LedgerNext
  <2>4. CASE RecordReply
    BY <2>4, ReplyRecorded, LedgerUnchanged DEF brokerVars, Ledger!ledger
  <2> QED
    BY <2>1, <2>2, <2>3, <2>4, ServiceOrReply
<1>2. IMInit => Ledger!Blank
  BY LedgerInit DEF IMInit
<1> QED
  BY <1>1, <1>2, IMInductive, PTL DEF IMSpec, ImplementsLedger, Ledger!LedgerSpec

-----------------------------------------------------------------------------
(***************************************************************************)
(* The decisions file.                                                     *)
(***************************************************************************)

(* Nothing beside the loop answers, records or handles a response. *)
LEMMA BesideRecords ==
  ASSUME Beside
  PROVE  UNCHANGED <<sent, pending, batch, cursor, changed, turnCompleted, run, auditVars>>
<1>1. ASSUME NEW c \in Clients, Ask(c) \/ Enqueue(c)
      PROVE  UNCHANGED <<sent, pending, batch, cursor, changed, turnCompleted, run, auditVars>>
  BY <1>1 DEF Ask, Enqueue, CheckStatus, CheckPending, CheckQueue, AppendResponse,
              ClientUnchanged, serviceVars, brokerVars
<1>2. CASE Environment \/ UNCHANGED vars
  BY <1>2 DEF Environment, vars, serviceVars, brokerVars
<1> QED
  BY <1>1, <1>2 DEF Beside

LEMMA ReplyRaisesIdle ==
  ASSUME AnswerReplyFails \/ PollRaises
  PROVE  im' = "idle" /\ im # "record"
  BY DEF AnswerReplyFails, PollRaises

LEMMA BothAuditStep ==
  ASSUME TypeInv, MessageTypeOK, Pass, BothAuditInv, [IMNext]_allVars
  PROVE  BothAuditInv'
<1> USE DEF LoopSteps
<1>0. Len(sent) \in Nat /\ Len(decisionsLog) \in Nat
  BY DEF TypeInv, AuditTypeOK
<1>1. CASE [Next]_vars /\ im # "record" /\ im' # "record"
  <2>1. AuditInv
    BY <1>1 DEF BothAuditInv, BothChannelsRecorded, AuditInv, AuditMatchesAnswers
  <2>2. AuditInv'
    BY <1>1, <2>1, AuditStep
  <2> QED
    BY <1>1, <2>2 DEF BothAuditInv, BothChannelsRecorded, AuditInv, AuditMatchesAnswers
<1>2. CASE im = "record" /\ Beside /\ UNCHANGED <<im, replies, loop>>
  BY <1>2, BesideRecords DEF auditVars, BothAuditInv, BothChannelsRecorded
<1>3. CASE im = "record" /\ im' = "idle" /\ Kill
  BY <1>3 DEF Kill, EndProcess, auditVars, BothAuditInv, BothChannelsRecorded
<1>4. CASE AnswerReply
  <2>1. /\ im = "answer" /\ im' = "record" /\ UNCHANGED replies
        /\ loop = "publish" /\ loop' = "publish"
    BY <1>4, ReplyInLoop DEF AnswerReply
  <2>2. Len(sent) = Len(decisionsLog) /\ Listed
    BY <1>0, <2>1 DEF BothAuditInv, BothChannelsRecorded, Listed
  <2>3. /\ Len(sent') = Len(decisionsLog') + 1
        /\ sent'[Len(sent')].response = Head(replies)
        /\ Listed'
    BY <1>4, <2>2, ReplyAnswers, AnswerUnrecorded
  <2>4. Len(decisionsLog') \in Nat
    BY <1>0, <1>4, ReplyAnswers DEF auditVars
  <2>5. Len(sent') - Len(decisionsLog') = 1
    BY <2>3, <2>4
  <2> QED
    BY <2>1, <2>3, <2>5 DEF BothAuditInv, BothChannelsRecorded, Listed
<1>5. CASE AnswerReplyFails \/ PollRaises
  <2>1. loop' = "failed" /\ im' = "idle" /\ UNCHANGED <<sent, decisionsLog>>
    BY <1>5, ReplyRaises, ReplyRaisesIdle DEF auditVars
  <2> QED
    BY <2>1 DEF BothAuditInv, BothChannelsRecorded
<1>6. CASE RecordReply
  <2>1. /\ im = "record" /\ im' = "answer" /\ loop = "publish" /\ loop' = "publish"
        /\ UNCHANGED sent
        /\ decisionsLog' = Append(decisionsLog,
                                  [id |-> Head(replies).id, decision |-> Head(replies).decision])
    BY <1>6, ReplyInLoop DEF RecordReply
  <2>2. Len(sent) = Len(decisionsLog) + 1 /\ sent[Len(sent)].response = Head(replies) /\ Listed
    BY <2>1 DEF BothAuditInv, BothChannelsRecorded, Listed
  <2>3. Len(sent') = Len(decisionsLog') /\ Listed'
    BY <2>1, <2>2, AnswerRecorded
  <2>4. Len(sent') - Len(decisionsLog') = 0
    BY <1>0, <2>1, <2>3
  <2> QED
    BY <2>1, <2>3, <2>4 DEF BothAuditInv, BothChannelsRecorded, Listed
<1> QED
  BY <1>1, <1>2, <1>3, <1>4, <1>5, <1>6, StepCases

LEMMA BothAudited == IMSpec => []BothAuditInv
<1>1. IMInit => BothAuditInv
  BY DEF IMInit, Init, BothAuditInv, BothChannelsRecorded
<1>2. IMAgreeInv /\ BothAuditInv /\ [IMNext]_allVars => BothAuditInv'
  BY BothAuditStep DEF IMAgreeInv
<1> QED
  BY <1>1, <1>2, IMInductive, PTL DEF IMSpec

(***************************************************************************)
(* Whichever way a decision came in, the decisions file lists what Codex   *)
(* was sent, in order: at most the last answer misses its record, and only *)
(* while the loop is at it or when the service ended before it.            *)
(***************************************************************************)
THEOREM BothRecorded == IMSpec => []BothChannelsRecorded
<1>1. BothAuditInv => BothChannelsRecorded
  BY DEF BothAuditInv
<1> QED
  BY <1>1, BothAudited, PTL

-----------------------------------------------------------------------------
(***************************************************************************)
(* The state file.                                                         *)
(***************************************************************************)
LEMMA IMPublishStep ==
  ASSUME TypeInv, MessageTypeOK, Pass, Phases, IMPublishInv, [IMNext]_allVars
  PROVE  IMPublishInv'
<1>1. CASE [Next]_vars /\ im # "record" /\ im' # "record"
  <2>1. PublishInv
    BY <1>1 DEF IMPublishInv, PublishInv
  <2>2. PublishInv'
    BY <1>1, <2>1, PublishStep
  <2> QED
    BY <2>2 DEF IMPublishInv, PublishInv
<1>2. CASE im = "record" /\ Beside /\ UNCHANGED <<im, replies, loop>>
  <2>1. loop = "publish" /\ loop' = "publish" /\ im' = "record"
    BY <1>2 DEF Pass
  <2> QED
    BY <2>1 DEF IMPublishInv
<1>3. CASE im = "record" /\ im' = "idle" /\ Kill
  BY <1>3 DEF Kill, EndProcess, IMPublishInv
<1>4. CASE AnswerReply
  <2>1. im' = "record" /\ loop' = "publish"
    BY <1>4, ReplyInLoop DEF AnswerReply
  <2> QED
    BY <2>1 DEF IMPublishInv
<1>5. CASE AnswerReplyFails \/ PollRaises
  BY <1>5, ReplyRaises DEF IMPublishInv
<1>6. CASE RecordReply
  BY <1>6, ReplyRecorded, ReplyInLoop DEF IMPublishInv
<1> QED
  BY <1>1, <1>2, <1>3, <1>4, <1>5, <1>6, StepCases

(***************************************************************************)
(* With an iMessage handle, too, the state file is current whenever the    *)
(* loop is at its top: an answer to a reply, which comes after the queue   *)
(* and the message of Codex, is published in the same pass.                *)
(***************************************************************************)
THEOREM IMStateFileCurrent == IMSpec => []PublishedStateCurrent
<1>1. IMInit => IMPublishInv
  BY DEF IMInit, Init, IMPublishInv
<1>2. IMAgreeInv /\ IMPublishInv /\ [IMNext]_allVars => IMPublishInv'
  BY IMPublishStep DEF IMAgreeInv
<1>3. IMPublishInv => PublishedStateCurrent
  BY DEF IMPublishInv, PublishedStateCurrent, Current
<1> QED
  BY <1>1, <1>2, <1>3, IMInductive, PTL DEF IMSpec

-----------------------------------------------------------------------------
(***************************************************************************)
(* The response queue: replies move neither the cursor nor the batch.      *)
(***************************************************************************)
LEMMA IMQueueStep ==
  ASSUME TypeInv, MessageTypeOK, Pass, QueueInv, [IMNext]_allVars
  PROVE  QueueInv'
<1>1. CASE [Next]_vars
  BY <1>1, QueueStep
<1>2. CASE AnswerReply
  <2> DEFINE x == [wire |-> pending[Head(replies).id], response |-> Head(replies)]
  <2>1. /\ loop = "publish" /\ loop' = "publish"
        /\ UNCHANGED <<cursor, batch, queue, resolutionsLog>>
        /\ sent' = Append(sent, x)
    BY <1>2, ReplyInLoop DEF AnswerReply, serviceVars, fileVars, auditVars
  <2>2. x \in [wire : WireIds, response : Response]
    <3>1. Head(replies) \in Response /\ pending[Head(replies).id] # NoWire
      BY <1>2, ReplyAnswers DEF Answers, SendDecision
    <3> QED
      BY <3>1 DEF Response, TypeInv, BrokerTypeOK
  <2>3. \A response : Handled(response, sent, resolutionsLog)
                        => Handled(response, sent', resolutionsLog')
    BY <2>1, <2>2, HandledStays
  <2>4. NoResponseDropped'
    <3> SUFFICES ASSUME NEW k \in 1..(cursor' - Len(batch'))
                 PROVE  Handled(queue'[k], sent', resolutionsLog')
      BY DEF NoResponseDropped, Handled
    <3>1. Handled(queue[k], sent, resolutionsLog)
      BY <2>1 DEF QueueInv, NoResponseDropped, Handled
    <3> QED
      BY <2>1, <2>3, <3>1
  <2> QED
    BY <2>1, <2>4 DEF QueueInv, BatchIsTail
<1>3. CASE AnswerReplyFails \/ PollRaises
  <2>1. loop' = "failed" /\ UNCHANGED <<cursor, batch, queue, sent, resolutionsLog>>
    BY <1>3, ReplyRaises DEF fileVars, auditVars
  <2> QED
    BY <2>1 DEF QueueInv, BatchIsTail, NoResponseDropped
<1>4. CASE RecordReply
  <2>1. UNCHANGED <<loop, cursor, batch, queue, sent, resolutionsLog>>
    BY <1>4, ReplyRecorded DEF fileVars
  <2> QED
    BY <2>1 DEF QueueInv, BatchIsTail, NoResponseDropped, Handled
<1> QED
  BY <1>1, <1>2, <1>3, <1>4, ServiceOrReply

LEMMA IMQueued == IMSpec => []QueueInv
<1>1. IMInit => QueueInv
  BY DEF IMInit, Init, QueueInv, BatchIsTail, NoResponseDropped
<1>2. IMAgreeInv /\ QueueInv /\ [IMNext]_allVars => QueueInv'
  BY IMQueueStep DEF IMAgreeInv
<1> QED
  BY <1>1, <1>2, IMInductive, PTL DEF IMSpec

(***************************************************************************)
(* A queued response whose request a reply has answered in the meantime is *)
(* recorded as rejected: the cursor skips nothing beside replies either.   *)
(***************************************************************************)
THEOREM IMNothingDropped == IMSpec => []NoResponseDropped
<1>1. QueueInv => NoResponseDropped
  BY DEF QueueInv
<1> QED
  BY <1>1, IMQueued, PTL

-----------------------------------------------------------------------------
(***************************************************************************)
(* The audit files taken together, with the answers to replies in them.    *)
(***************************************************************************)

(* But for the reply whose answer awaits its record, all is as without an  *)
(* iMessage handle.                                                        *)
LEMMA RecordsBeside ==
  ASSUME IMRecordsInv, im # "record"
  PROVE  RecordsInv
  BY DEF IMRecordsInv, IMOverIsAccounted, RecordsInv, OverIsAccounted

LEMMA RecordsAreIM ==
  ASSUME RecordsInv'
  PROVE  IMRecordsInv'
  BY DEF IMRecordsInv, IMOverIsAccounted, RecordsInv, OverIsAccounted

LEMMA IMRecordsStep ==
  ASSUME TypeInv, MessageTypeOK, Pass, Phases, Known, PipeInv, QueueInv, IMRecordsInv,
         [IMNext]_allVars
  PROVE  IMRecordsInv'
<1>1. CASE [Next]_vars /\ im # "record" /\ im' # "record"
  <2>1. RecordsInv'
    BY <1>1, RecordsBeside, RecordsStep DEF QueueInv
  <2> QED
    BY <2>1, RecordsAreIM
<1>2. CASE im = "record" /\ Beside /\ UNCHANGED <<im, replies, loop>>
  <2>1. UNCHANGED <<sent, pending, batch, auditVars>>
    BY <1>2, BesideRecords
  <2>2. AccountedIsOver' /\ IMOverIsAccounted'
    BY <1>2, <2>1
       DEF IMRecordsInv, AccountedIsOver, IMOverIsAccounted, Accounted, InLoop, auditVars
  <2>3. ASSUME NEW c \in Clients, Ask(c) \/ Enqueue(c)
        PROVE  AskedIds' /\ OpenIsAsked'
    <3>1. UNCHANGED <<codex, inbound>>
      BY <2>3 DEF Ask, Enqueue, CheckStatus, CheckPending, CheckQueue, AppendResponse,
                  ClientUnchanged, codexVars, turnVars, pipeVars
    <3>2. OpenIsAsked'
      BY <1>2, <2>1, <3>1 DEF IMRecordsInv, OpenIsAsked, InLoop, auditVars
    <3> QED
      BY <2>3, <3>2, AskedClient DEF IMRecordsInv
  <2>4. ASSUME Environment
        PROVE  AskedIds' /\ OpenIsAsked'
    <3>1. AskedIds'
      BY <2>1, <2>4 DEF Environment, fileVars, auditVars, IMRecordsInv, AskedIds, Asked
    <3> QED
      BY <2>4, <3>1, OpenAsked DEF IMRecordsInv
  <2>5. ASSUME UNCHANGED vars
        PROVE  AskedIds' /\ OpenIsAsked'
    BY <1>2, <2>1, <2>5
       DEF vars, codexVars, turnVars, pipeVars, fileVars, auditVars, IMRecordsInv, AskedIds,
           Asked, OpenIsAsked, InLoop
  <2> QED
    BY <1>2, <2>2, <2>3, <2>4, <2>5 DEF Beside, IMRecordsInv
<1>3. CASE im = "record" /\ im' = "idle" /\ Kill
  <2>1. AskedIds'
    BY <1>3, AskedUnchanged DEF Kill, EndProcess, IMRecordsInv, auditVars, Asked
  <2>2. RecordsInv'
    BY <1>3, <2>1, RecordsClosed
       DEF IMRecordsInv, Kill, EndProcess, ResetBroker, auditVars, InLoop, LoopSteps
  <2> QED
    BY <2>2, RecordsAreIM
<1>4. CASE AnswerReply
  <2>1. im = "answer" /\ im' = "record" /\ UNCHANGED replies /\ InLoop
    BY <1>4, ReplyInLoop DEF AnswerReply
  <2>2. RecordsInv
    BY <2>1, RecordsBeside
  <2>3. /\ UNCHANGED <<serviceVars, fileVars, auditVars, client>>
        /\ Head(replies) \in Response /\ Answers(Head(replies))
    BY <1>4, ReplyAnswers
  <2>4. /\ \A r \in RequestIds : r = Head(replies).id \/ pending'[r] = pending[r]
        /\ OpenIsAsked' /\ AccountedIsOver' /\ Accounted' = Accounted
    BY <2>2, <2>3, OverAnswered
  <2>5. AskedIds'
    BY <2>3 DEF serviceVars, fileVars, auditVars, IMRecordsInv, AskedIds, Asked
  <2>6. /\ UNCHANGED <<loop, batch, approvalsLog>> /\ approvalsLog \subseteq RequestIds
    BY <2>3 DEF serviceVars, auditVars, TypeInv, AuditTypeOK
  <2>7. IMOverIsAccounted'
    BY <2>1, <2>2, <2>4, <2>6 DEF RecordsInv, OverIsAccounted, IMOverIsAccounted
  <2> QED
    BY <2>4, <2>5, <2>7 DEF IMRecordsInv
<1>5. CASE AnswerReplyFails \/ PollRaises
  <2>1. /\ CloseChild /\ loop' = "failed"
        /\ UNCHANGED <<batch, fileVars, auditVars, client, sent>>
        /\ \A r \in RequestIds : pending'[r] = pending[r] \/ pending'[r] = NoWire
    BY <1>5, ReplyRaises
  <2>2. AskedIds'
    BY <2>1, AskedUnchanged DEF fileVars, auditVars, IMRecordsInv, Asked
  <2>3. RecordsInv'
    BY <2>1, <2>2, RecordsClosed DEF IMRecordsInv, auditVars, InLoop, LoopSteps
  <2> QED
    BY <2>3, RecordsAreIM
<1>6. CASE RecordReply
  <2>1. im = "record" /\ im' = "answer" /\ loop = "publish" /\ loop' = "publish"
    BY <1>6, ReplyInLoop DEF RecordReply
  <2>2. /\ Head(replies) \in Response
        /\ UNCHANGED <<pending, codex, inbound, batch, queue, stateFile, client, approvalsLog,
                       sent, resolutionsLog, pastAudit>>
        /\ decisionsLog' = Append(decisionsLog,
                                  [id |-> Head(replies).id, decision |-> Head(replies).decision])
    BY <1>6, ReplyRecorded DEF brokerVars, codexVars, turnVars, pipeVars, fileVars
  <2>3. Accounted \subseteq Accounted' /\ Head(replies).id \in Accounted'
    BY <2>2, AccountedGrows
  <2>4. AskedIds' /\ OpenIsAsked' /\ AccountedIsOver'
    BY <2>1, <2>2
       DEF IMRecordsInv, AskedIds, Asked, OpenIsAsked, AccountedIsOver, InLoop, LoopSteps
  <2>5. IMOverIsAccounted'
    BY <2>1, <2>2, <2>3 DEF IMRecordsInv, IMOverIsAccounted, InLoop, LoopSteps
  <2> QED
    BY <2>4, <2>5 DEF IMRecordsInv
<1> QED
  BY <1>1, <1>2, <1>3, <1>4, <1>5, <1>6, StepCases

(***************************************************************************)
(* At the top of the loop the audit files alone list exactly what is       *)
(* pending, whichever of the two channels each decision came in by.        *)
(***************************************************************************)
THEOREM IMAuditComplete == IMSpec => []AuditListsPending
<1>1. IMInit => IMRecordsInv
  BY DEF IMInit, Init, IMRecordsInv, AskedIds, OpenIsAsked, AccountedIsOver, IMOverIsAccounted,
         InLoop, LoopSteps
<1>2. IMAgreeInv /\ QueueInv /\ IMRecordsInv /\ [IMNext]_allVars => IMRecordsInv'
  BY IMRecordsStep DEF IMAgreeInv
<1>3. IMAgreeInv /\ BothAuditInv /\ IMRecordsInv => AuditListsPending
  <2> SUFFICES ASSUME IMAgreeInv, BothAuditInv, IMRecordsInv, loop = "top"
               PROVE  AuditListsPending
    BY DEF AuditListsPending
  <2>1. im # "record"
    BY DEF IMAgreeInv, Pass
  <2>2. AuditInv
    BY <2>1 DEF BothAuditInv, BothChannelsRecorded, AuditInv, AuditMatchesAnswers
  <2> QED
    BY <2>1, <2>2, RecordsBeside, RecordsList DEF IMAgreeInv
<1> QED
  BY <1>1, <1>2, <1>3, IMInductive, IMQueued, BothAudited, PTL DEF IMSpec

-----------------------------------------------------------------------------
(***************************************************************************)
(* What the broker and Codex agree on, of requests, confirmations and the  *)
(* end of the turn.                                                        *)
(***************************************************************************)

(***************************************************************************)
(* No request Codex waits on is forgotten while the loop runs: a reply     *)
(* that answers it is on its way back.                                     *)
(***************************************************************************)
THEOREM IMApprovalsKept == IMSpec => []NoLostApproval
<1>1. IMAgreeInv => NoLostApproval
  BY AgreedKeeps DEF IMAgreeInv
<1> QED
  BY <1>1, IMInductive, PTL

(***************************************************************************)
(* And what is pending, and so may be notified of and replied to, Codex    *)
(* still waits on, or its closing is on its way.                           *)
(***************************************************************************)
THEOREM IMNothingGhostly == IMSpec => []NoGhostApproval
<1>1. IMAgreeInv => NoGhostApproval
  BY AgreedKeeps DEF IMAgreeInv
<1> QED
  BY <1>1, IMInductive, PTL

LEMMA IMStaleStep ==
  ASSUME TypeInv, MessageTypeOK, Pass, Phases, Known, PipeInv, StaleInv, [IMNext]_allVars
  PROVE  StaleInv'
<1>1. CASE [Next]_vars
  BY <1>1, StaleStep
<1>2. CASE AnswerReply
  BY <1>2, ReplyAnswers, StaleAnswered
<1>3. CASE AnswerReplyFails \/ PollRaises
  <2>1. /\ loop' = "failed" /\ ~InLoop' /\ inbound' = <<>>
        /\ UNCHANGED <<sent, resolutionsLog>>
        /\ \A r \in RequestIds : pending'[r] = pending[r] \/ pending'[r] = NoWire
    BY <1>3, ReplyRaises DEF InLoop, LoopSteps, CloseChild, ClosePipes, auditVars
  <2> QED
    BY <2>1, StaleClosed
<1>4. CASE RecordReply
  BY <1>4, ReplyRecorded, ReplyInLoop, StaleUnchanged
     DEF brokerVars, codexVars, turnVars, pipeVars
<1> QED
  BY <1>1, <1>2, <1>3, <1>4, ServiceOrReply

(***************************************************************************)
(* The confirmation of a decision is never logged as a stale resolution,   *)
(* whichever way the decision came in.                                     *)
(***************************************************************************)
THEOREM IMConfirmationsNotStale == IMSpec => []AnsweredNeverStale
<1>1. IMInit => StaleInv
  BY DEF IMInit, Init, StaleInv, Remembered, StaleIsOver, BlankRecords, InLoop, LoopSteps
<1>2. IMAgreeInv /\ StaleInv /\ [IMNext]_allVars => StaleInv'
  BY IMStaleStep DEF IMAgreeInv
<1>3. StaleInv => AnsweredNeverStale
  BY DEF StaleInv, StaleIsOver, AnsweredNeverStale
<1> QED
  BY <1>1, <1>2, <1>3, IMInductive, PTL DEF IMSpec

LEMMA IMTurnStep ==
  ASSUME TypeInv, MessageTypeOK, Pass, Phases, Known, PipeInv, Agreed, TurnInv,
         CompletedMeansDone, [IMNext]_allVars
  PROVE  TurnInv' /\ CompletedMeansDone'
<1>1. CASE [Next]_vars
  BY <1>1, TurnStep
<1>2. CASE AnswerReply
  <2>1. /\ loop' = "publish" /\ InLoop
        /\ UNCHANGED <<inbound, turn, codex, turnCompleted, stateFile>>
    BY <1>2, ReplyInLoop DEF AnswerReply, SendLine, turnVars, serviceVars, fileVars
  <2>2. \A r \in RequestIds : pending'[r] = pending[r] \/ pending'[r] = NoWire
    BY <1>2, ReplyAnswers DEF Answers, SendDecision, Response, TypeInv, BrokerTypeOK
  <2> QED
    BY <2>1, <2>2, TurnUnchanged
<1>3. CASE AnswerReplyFails \/ PollRaises
  <2>1. /\ loop' = "failed" /\ ~InLoop' /\ CloseChild
        /\ UNCHANGED <<turnCompleted, stateFile>>
        /\ \A r \in RequestIds : pending'[r] = pending[r] \/ pending'[r] = NoWire
    BY <1>3, ReplyRaises DEF InLoop, LoopSteps, fileVars
  <2> QED
    BY <2>1, TurnClosed
<1>4. CASE RecordReply
  <2>1. /\ loop' = "publish" /\ InLoop
        /\ UNCHANGED <<inbound, turn, codex, turnCompleted, stateFile, pending>>
    BY <1>4, ReplyRecorded, ReplyInLoop
       DEF brokerVars, codexVars, turnVars, pipeVars, fileVars
  <2> QED
    BY <2>1, TurnUnchanged
<1> QED
  BY <1>1, <1>2, <1>3, <1>4, ServiceOrReply

(***************************************************************************)
(* With an App Server that completes no turn with a request open, the      *)
(* state file that says "completed" lists nothing pending, with replies as *)
(* without.                                                                *)
(***************************************************************************)
THEOREM IMCompletedListsNothing == IMSpec => []CompletedMeansDone
<1>1. IMInit => TurnInv /\ CompletedMeansDone
  BY DEF IMInit, Init, NoTurn, PipesEmpty, TurnInv, CompletedMeansDone
<1>2. IMAgreeInv /\ TurnInv /\ CompletedMeansDone /\ [IMNext]_allVars
        => TurnInv' /\ CompletedMeansDone'
  BY IMTurnStep DEF IMAgreeInv
<1> QED
  BY <1>1, <1>2, IMInductive, PTL DEF IMSpec

-----------------------------------------------------------------------------
(***************************************************************************)
(* Replies.  What a message of this run names was asked in this run, so    *)
(* the broker knows the request of every reply it reads, or has known it.  *)
(***************************************************************************)

(* Only the start of a run counts the runs or forgets what was asked. *)
LEMMA SameRun ==
  ASSUME [IMNext]_allVars
  PROVE  \/ Start /\ UNCHANGED imVars
         \/ run' = run /\ approvalsLog \subseteq approvalsLog'
<1> USE DEF auditVars
<1>1. CASE LoopStep \/ RunStep
  BY <1>1 DEF LoopStep, RunStep, LoadResponses, AnswerQueued, AnswerFails, RecordDecision,
              RejectQueued, DrainDone, Timeout, PublishAndContinue, PublishAndFinish,
              WriteStarting, Handshake, HandshakeFails
<1>2. CASE WriteFinal \/ WriteError \/ Kill
  BY <1>2 DEF WriteFinal, WriteError, Kill, EndProcess
<1>3. CASE ReadAndNotify \/ NothingToNotify
  BY <1>3 DEF ReadAndNotify, NothingToNotify, ReadMessage, ReadTimesOut
<1>4. CASE Notify \/ Notified \/ Poll \/ PollFails \/ DropReply \/ RepliesDone
  BY <1>4 DEF Notify, Notified, Poll, PollFails, DropReply, RepliesDone, serviceUnchanged
<1>5. CASE AnswerReply \/ AnswerReplyFails
  BY <1>5 DEF AnswerReply, AnswerReplyFails, serviceVars
<1>6. CASE PollRaises
  BY <1>6 DEF PollRaises
<1>7. CASE RecordReply
  BY <1>7 DEF RecordReply
<1>8. CASE Beside
  BY <1>8, BesideRecords, BesideIsAStep
<1>9. CASE Says
  BY <1>9 DEF Says, serviceUnchanged
<1>10. CASE UNCHANGED allVars
  BY <1>8, <1>10 DEF allVars, Beside
<1> QED
  BY <1>1, <1>2, <1>3, <1>4, <1>5, <1>6, <1>7, <1>8, <1>9, <1>10
     DEF IMNext, IMServiceStep, MessageStep, Beside

LEMMA EndForgets ==
  ASSUME Pass, [IMNext]_allVars, loop' = "down"
  PROVE  ForgetMessages \/ (loop = "down" /\ UNCHANGED <<emitted, replies>>)
<1>1. ~Start
  BY DEF Start
<1>2. ~LoopStep /\ ~RunStep
  BY DEF LoopStep, RunStep, LoadResponses, AnswerQueued, AnswerFails, RecordDecision,
         RejectQueued, DrainDone, Timeout, PublishAndContinue, PublishAndFinish,
         WriteStarting, Handshake, HandshakeFails
<1>3. ~ReadAndNotify /\ ~NothingToNotify
  BY DEF ReadAndNotify, NothingToNotify, ReadMessage, ReadTimesOut
<1>4. ~Notify /\ ~Notified /\ ~Poll /\ ~PollFails /\ ~DropReply /\ ~RepliesDone
  BY DEF Notify, Notified, Poll, PollFails, DropReply, RepliesDone, serviceUnchanged, Pass
<1>5. ~AnswerReply /\ ~RecordReply
  BY ReplyInLoop
<1>6. ~AnswerReplyFails /\ ~PollRaises
  BY DEF AnswerReplyFails, PollRaises
<1>7. CASE Beside /\ UNCHANGED imMemory
  BY <1>7, BesideIsAStep DEF imMemory
<1>8. CASE Says
  BY <1>7, <1>8, Unchanging DEF Says, Beside
<1>9. CASE UNCHANGED allVars
  BY <1>7, <1>9 DEF allVars, imVars, Beside
<1> QED
  BY <1>1, <1>2, <1>3, <1>4, <1>5, <1>6, <1>7, <1>8, <1>9
     DEF IMNext, IMServiceStep, MessageStep, Beside, imVars

(* Nothing but a poll, an answer and the end of the run changes the        *)
(* replies at hand; nothing but a poll adds to them.                       *)
LEMMA RepliesFrom ==
  ASSUME MessageTypeOK, Pass, [IMNext]_allVars, NEW k \in DOMAIN replies'
  PROVE  \/ \E j \in DOMAIN replies : replies'[k] = replies[j]
         \/ Poll
<1>1. CASE UNCHANGED replies
  BY <1>1
<1>2. CASE replies' = Tail(replies) /\ replies # <<>>
  <2>1. replies \in Seq(Response)
    BY DEF MessageTypeOK
  <2>2. k + 1 \in DOMAIN replies /\ replies'[k] = replies[k + 1]
    BY <1>2, <2>1
  <2> QED
    BY <2>2
<1>3. CASE replies' = <<>>
  BY <1>3
<1>4. \/ UNCHANGED replies \/ replies' = <<>> \/ Poll
      \/ replies' = Tail(replies) /\ replies # <<>>
  BY DEF IMNext, IMServiceStep, MessageStep, ReadAndNotify, NothingToNotify, Notify, Notified,
         PollFails, PollRaises, AnswerReply, AnswerReplyFails, RecordReply, DropReply,
         RepliesDone, ForgetMessages, Says, Pass, allVars, imVars, imMemory
<1> QED
  BY <1>1, <1>2, <1>3, <1>4

(* A message in the database was there, notifies of an approval this pass  *)
(* has read, or answers one that was there.                                *)
LEMMA ChatFrom ==
  ASSUME TypeInv, MessageTypeOK, [IMNext]_allVars, NEW k \in DOMAIN chat', chat'[k] # BadReply
  PROVE  \/ k \in DOMAIN chat /\ chat'[k] = chat[k]
         \/ /\ Notify /\ chat'[k].response.id \in emitted /\ chat'[k].response.run = run
         \/ \E j \in DOMAIN chat :
              /\ chat[j] # BadReply
              /\ chat'[k].response.id = chat[j].response.id
              /\ chat'[k].response.run = chat[j].response.run
<1>1. CASE UNCHANGED chat
  BY <1>1
<1>2. CASE Notify
  <2>1. PICK r \in emitted : chat' = Append(chat, Notification(r)) \/ UNCHANGED chat
    BY <1>2 DEF Notify
  <2>2. Notification(r) \in Chat
    BY NotificationsAreChat DEF MessageTypeOK
  <2>3. \/ k \in DOMAIN chat /\ chat'[k] = chat[k]
        \/ chat'[k] = Notification(r)
    BY <2>1, <2>2, ChatGrows
  <2> QED
    BY <1>2, <2>3 DEF Notification
<1>3. CASE Says
  <2>1. PICK message \in Chat :
          /\ chat' = Append(chat, message)
          /\ message # BadReply =>
               \E j \in DOMAIN chat :
                 /\ chat[j] # BadReply
                 /\ message.response.id = chat[j].response.id
                 /\ message.response.run = chat[j].response.run
    BY <1>3, Said
  <2>2. (k \in DOMAIN chat /\ chat'[k] = chat[k]) \/ chat'[k] = message
    BY <2>1, ChatGrows
  <2> QED
    BY <2>1, <2>2
<1>4. UNCHANGED chat \/ Notify \/ Says
  BY DEF IMNext, IMServiceStep, MessageStep, ReadAndNotify, NothingToNotify, Notified, Poll,
         PollFails, PollRaises, AnswerReply, AnswerReplyFails, RecordReply, DropReply,
         RepliesDone, ForgetMessages, allVars, imVars
<1> QED
  BY <1>1, <1>2, <1>3, <1>4

LEMMA ChatStep ==
  ASSUME TypeInv, MessageTypeOK, Pass, ChatInv, [IMNext]_allVars
  PROVE  ChatInv'
<1>1. CASE Start /\ UNCHANGED imVars
  <2>1. /\ loop = "down" /\ loop' = "starting" /\ run' = run + 1 /\ run \in Nat
        /\ UNCHANGED <<chat, emitted, replies>>
    BY <1>1 DEF Start, imVars, imMemory, TypeInv, ServiceTypeOK
  <2>2. emitted = {} /\ replies = <<>>
    BY <2>1 DEF ChatInv
  <2>3. ASSUME NEW k \in DOMAIN chat, chat[k] # BadReply
        PROVE  chat[k].response.run \in Nat /\ chat[k].response.run <= run
    <3>1. chat[k] \in Chat
      BY DEF MessageTypeOK
    <3>2. chat[k].response.run \in 0..MaxRuns
      BY <2>3, <3>1 DEF Chat, Response
    <3> QED
      BY <2>3, <3>2 DEF ChatInv, AskedIn
  <2>4. \A k \in DOMAIN chat : chat[k] # BadReply =>
          chat[k].response.run <= run + 1 /\ chat[k].response.run # run + 1
    BY <2>1, <2>3
  <2> QED
    BY <2>1, <2>2, <2>4 DEF ChatInv, AskedIn
<1>2. CASE run' = run /\ approvalsLog \subseteq approvalsLog'
  <2>1. \A response : AskedIn(response, run, approvalsLog)
                        => AskedIn(response, run', approvalsLog')
    BY <1>2 DEF AskedIn
  <2>2. ASSUME NEW k \in DOMAIN chat', chat'[k] # BadReply
        PROVE  AskedIn(chat'[k].response, run', approvalsLog')
    <3>1. CASE k \in DOMAIN chat /\ chat'[k] = chat[k]
      BY <2>1, <2>2, <3>1 DEF ChatInv
    <3>2. CASE Notify /\ chat'[k].response.id \in emitted /\ chat'[k].response.run = run
      <4>1. run \in Nat /\ emitted \subseteq approvalsLog
        BY DEF TypeInv, ServiceTypeOK, ChatInv
      <4> QED
        BY <1>2, <3>2, <4>1 DEF AskedIn
    <3>3. CASE \E j \in DOMAIN chat :
                 /\ chat[j] # BadReply
                 /\ chat'[k].response.id = chat[j].response.id
                 /\ chat'[k].response.run = chat[j].response.run
      BY <1>2, <3>3 DEF ChatInv, AskedIn
    <3> QED
      BY <2>2, <3>1, <3>2, <3>3, ChatFrom
  <2>3. ASSUME NEW k \in DOMAIN replies'
        PROVE  AskedIn(replies'[k], run', approvalsLog')
    <3>1. CASE \E j \in DOMAIN replies : replies'[k] = replies[j]
      BY <2>1, <3>1 DEF ChatInv
    <3>2. CASE Poll
      <4>1. k \in DOMAIN Unseen /\ replies'[k] = chat[Unseen[k]].response
        BY <2>3, <3>2 DEF Poll
      <4>2. Unseen[k] \in DOMAIN chat /\ chat[Unseen[k]] # BadReply
        BY <4>1, UnseenReplies
      <4> QED
        BY <2>1, <4>1, <4>2 DEF ChatInv
    <3> QED
      BY <2>3, <3>1, <3>2, RepliesFrom
  <2>4. emitted' \subseteq approvalsLog'
    <3>1. CASE ReadAndNotify
      BY <3>1 DEF ReadAndNotify, ReadMessage
    <3>2. ReadAndNotify \/ emitted' = emitted \/ emitted' = {}
      BY DEF IMNext, IMServiceStep, MessageStep, NothingToNotify, Notify, Notified, Poll,
             PollFails, PollRaises, AnswerReply, AnswerReplyFails, RecordReply, DropReply,
             RepliesDone, ForgetMessages, Says, allVars, imVars, imMemory
    <3> QED
      BY <1>2, <3>1, <3>2 DEF ChatInv
  <2>5. loop' = "down" => emitted' = {} /\ replies' = <<>>
    BY EndForgets DEF ForgetMessages, ChatInv
  <2> QED
    BY <2>2, <2>3, <2>4, <2>5 DEF ChatInv
<1> QED
  BY <1>1, <1>2, SameRun

(* An answer is on its way once it is sent, until Codex takes or ignores it. *)
LEMMA OutboundUnchanged ==
  ASSUME OutboundInv, UNCHANGED <<outbound, sent>>, loop' = "down" => loop = "down"
  PROVE  OutboundInv'
  BY DEF OutboundInv, Answered

LEMMA OutboundGone ==
  ASSUME outbound' = <<>>
  PROVE  OutboundInv'
  BY DEF OutboundInv

LEMMA OutboundTaken ==
  ASSUME TypeInv, OutboundInv, outbound # <<>>, outbound' = Tail(outbound), UNCHANGED <<sent, loop>>
  PROVE  OutboundInv'
<1>1. outbound \in Seq(Answer)
  BY DEF TypeInv, CodexTypeOK, PipeTypeOK
<1>2. \A k \in DOMAIN outbound' : k + 1 \in DOMAIN outbound /\ outbound'[k] = outbound[k + 1]
  BY <1>1
<1> QED
  BY <1>2 DEF OutboundInv, Answered

LEMMA OutboundAnswered ==
  ASSUME TypeInv, OutboundInv, NEW y \in Response, Answers(y)
  PROVE  OutboundInv'
<1> DEFINE w == pending[y.id]
<1>1. w \in WireIds
  BY NoWireAssumption DEF Answers, SendDecision, Response, TypeInv, BrokerTypeOK
<1>2. /\ outbound' = Append(outbound, [wire |-> w, decision |-> y.decision])
      /\ sent' = Append(sent, [wire |-> w, response |-> y])
      /\ loop' # "down"
  BY DEF Answers, SendLine, InLoop, LoopSteps
<1>3. /\ outbound \in Seq(Answer)
      /\ sent \in Seq([wire : WireIds, response : Response])
  BY DEF TypeInv, CodexTypeOK, PipeTypeOK, AuditTypeOK
<1>4. /\ \A k \in DOMAIN outbound' :
           (k \in DOMAIN outbound /\ outbound'[k] = outbound[k]) \/ outbound'[k].wire = w
      /\ \A k \in DOMAIN sent : k \in DOMAIN sent' /\ sent'[k] = sent[k]
      /\ \E k \in DOMAIN sent' : sent'[k].wire = w
  BY <1>2, <1>3
<1> QED
  BY <1>2, <1>4 DEF OutboundInv, Answered

LEMMA OutboundStep ==
  ASSUME TypeInv, Phases, OutboundInv, [Next]_vars
  PROVE  OutboundInv'
<1>1. CASE Start
  BY <1>1, OutboundGone DEF Start, OutboundInv, codexVars, pipeVars
<1>2. CASE WriteStarting \/ Handshake \/ LoadResponses \/ RecordDecision
  BY <1>2, OutboundUnchanged
     DEF WriteStarting, Handshake, LoadResponses, RecordDecision, codexVars, pipeVars
<1>3. CASE RejectQueued \/ DrainDone \/ ReadTimesOut \/ PublishAndContinue
  BY <1>3, OutboundUnchanged
     DEF RejectQueued, DrainDone, ReadTimesOut, ReadNothing, PublishAndContinue, codexVars,
         pipeVars
<1>4. CASE ReadMessage
  BY <1>4, OutboundUnchanged DEF ReadMessage, ReadLine
<1>5. CASE AnswerQueued
  BY <1>5, QueuedAnswers, OutboundAnswered
<1>6. CASE HandshakeFails \/ Timeout \/ AnswerFails \/ PublishAndFinish
  BY <1>6, OutboundGone
     DEF HandshakeFails, Timeout, AnswerFails, PublishAndFinish, CloseChild, ClosePipes
<1>7. CASE WriteFinal \/ WriteError \/ Kill
  BY <1>7, OutboundGone DEF WriteFinal, WriteError, Kill, EndProcess, CloseChild, ClosePipes
<1>8. ASSUME NEW c \in Clients, Ask(c) \/ Enqueue(c)
      PROVE  OutboundInv'
  BY <1>8, OutboundUnchanged
     DEF Ask, Enqueue, CheckStatus, CheckPending, CheckQueue, AppendResponse, ClientUnchanged,
         codexVars, pipeVars, serviceVars
<1>9. CASE Environment
  <2>1. UNCHANGED <<sent, loop>>
    BY <1>9 DEF Environment, serviceVars
  <2>2. CASE TakeDecision \/ IgnoreDecision
    BY <2>1, <2>2, OutboundTaken DEF TakeDecision, IgnoreDecision
  <2>3. CASE UNCHANGED outbound
    BY <2>1, <2>3, OutboundUnchanged
  <2> QED
    BY <1>9, <2>2, <2>3
       DEF Environment, CodexStep, StartItem, ReportItem, CompleteItem, RequestApproval,
           WithdrawRequest, CompleteTurn, Die
<1>10. CASE UNCHANGED vars
  BY <1>10, OutboundUnchanged DEF vars, codexVars, pipeVars, serviceVars
<1> QED
  BY <1>1, <1>2, <1>3, <1>4, <1>5, <1>6, <1>7, <1>8, <1>9, <1>10 DEF Next, ServiceStep

LEMMA IMOutboundStep ==
  ASSUME TypeInv, MessageTypeOK, Pass, Phases, OutboundInv, [IMNext]_allVars
  PROVE  OutboundInv'
<1>1. CASE [Next]_vars
  BY <1>1, OutboundStep
<1>2. CASE AnswerReply
  BY <1>2, ReplyAnswers, OutboundAnswered
<1>3. CASE AnswerReplyFails \/ PollRaises
  BY <1>3, ReplyRaises, OutboundGone DEF CloseChild, ClosePipes
<1>4. CASE RecordReply
  BY <1>4, ReplyRecorded, OutboundUnchanged DEF codexVars, pipeVars
<1> QED
  BY <1>1, <1>2, <1>3, <1>4, ServiceOrReply

ReplyInv == IMAgreeInv /\ ChatInv /\ OutboundInv

LEMMA ReplyInductive == IMSpec => []ReplyInv
<1>1. IMInit => ChatInv /\ OutboundInv
  BY DEF IMInit, Init, PipesEmpty, ChatInv, OutboundInv
<1>2. ReplyInv /\ [IMNext]_allVars => ChatInv' /\ OutboundInv'
  BY ChatStep, IMOutboundStep DEF ReplyInv, IMAgreeInv
<1> QED
  BY <1>1, <1>2, IMInductive, PTL DEF IMSpec, ReplyInv

(***************************************************************************)
(* A reply to a notification of this run is dropped only when Codex has    *)
(* closed its request or has been sent an answer: the request was asked,   *)
(* so it is known; if it is open and not pending, its answer is on its way.*)
(***************************************************************************)
THEOREM RepliesHonoured == IMSpec => ReplyHonoured
<1>1. ASSUME ReplyInv, DropReply, Head(replies).run = run,
             NEW w \in WireIds, Normalized[w] = Head(replies).id
      PROVE  codex[w] = "closed" \/ Answered(w)
  <2> DEFINE r == Head(replies).id
  <2> USE <1>1 DEF ReplyInv, IMAgreeInv
  <2>1. 1 \in DOMAIN replies /\ Head(replies) = replies[1]
    BY DEF DropReply, MessageTypeOK
  <2>2. r \in approvalsLog
    BY <2>1 DEF ChatInv, AskedIn
  <2>3. InLoop
    BY DEF DropReply, Pass, InLoop, LoopSteps
  <2>4. codex[w] # "idle"
    BY <2>2, <2>3 DEF Known, UnaskedUnknown
  <2>5. ASSUME codex[w] = "open"
        PROVE  Answered(w)
    <3>1. \A k \in DOMAIN inbound : ~IsApproval(inbound[k], w)
      BY <2>2 DEF Known, UnreadUnknown
    <3>2. pending[r] # w
      BY NormalizedAssumption, NoWireAssumption DEF DropReply, PendingIds, PendingIn
    <3>3. \E k \in DOMAIN outbound : outbound[k].wire = w
      BY <2>3, <2>5, <3>1, <3>2 DEF Agreed, Kept
    <3> QED
      BY <3>3 DEF OutboundInv
  <2> QED
    BY <2>4, <2>5 DEF TypeInv, CodexTypeOK
<1>2. ReplyInv /\ [IMNext]_allVars =>
        [DropReply /\ Head(replies).run = run =>
           \A w \in WireIds :
             Normalized[w] = Head(replies).id => codex[w] = "closed" \/ Answered(w)]_allVars
  BY <1>1
<1> QED
  BY <1>2, ReplyInductive, PTL DEF IMSpec, ReplyHonoured
=============================================================================
