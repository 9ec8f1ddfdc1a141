# Codex Remote Automation in TLA+

Codex Remote Automation (CRA) lets an operator who is away from the Mac decide the approval requests of a Codex App
Server: a broker on the Mac keeps what is pending, offers it to the operator over one of several channels, and writes
the decision back to Codex. These modules model that program, check it with TLC and prove its main safety properties
with TLAPS. All paths below are relative to the repository root; line numbers are those of the modelled commit.

## 1. Inventory

### Components, their state and operations

| Component | Source | State | Operations |
|---|---|---|---|
| Broker state | `cra/broker.py`, `cra/models.py` | `pending`, `items_by_id`, `responded_request_ids` | `handle_message` (approval request, item started, item completed, request resolved, turn completed), `send_decision`, `pending_request` |
| App Server transport | `cra/app_server.py` | the child process, its pipes, the text read buffer, `_buffered_messages` | `start`, `close`, handshake requests, `read_message`, `send_response` |
| Broker service | `cra/broker_service.py`, `cra/audit.py` | loop locals (`response_cursor`, `turn_completed`, `changed`), `broker-state.json`, `broker-responses.jsonl`, four audit files | `run_broker_service`: one loop that drains the queue, reads one message, publishes the state |
| Operator clients | `cra/broker_service.py` (`enqueue_broker_response`), `cra/cli.py`, `cra/shortcuts.py` | none of their own: they read two files and append to one | `broker-shortcut-payload`, `broker-respond` |
| iMessage channel | `cra/imessage.py` | notified ids, seen message keys | notify, poll, parse replies |
| Bridge secure transport | `cra/bridge/secure_transport.py` | pending pairing, pending handshake, active session, counters, outbound buffer | hello, auth, resume, encrypted envelope, queue outbound |
| Bridge runtime | `cra/bridge/runtime.py` | a broker state, App Server handshake state | phone messages, Codex messages, snapshots |
| Bridge service, device state | `cra/bridge/service.py`, `ws_client.py`, `device_state.py` | trusted phones, runtime state file | `run_bridge_service` |
| Relay | `relay/server.js` | sessions and their sockets | connect, broadcast, close, heartbeat |
| Remodex study bridge | `remodex/*.js` | as the bridge, and a reconnecting socket | the same protocol in JavaScript |
| Patched runtime | `cra/remodex_upstream.py` | a patched copy of the Remodex package, its metadata file | `ensure_patched_runtime`, `build_patched_runtime`, `run_upstream_remodex` |
| Launch agents | `cra/remodex_upstream.py` | a plist and launchd's job, for the background agent and for the Terminal's | install, uninstall, status; what launchd does by itself |
| Self-hosted wrapper | `cra/remodex_upstream.py` | relay, tunnel and bridge children, `selfhosted-state.json` | `run_selfhosted_remodex`: start, wait, tear down |
| UI fallbacks | `cra/actuator.py`, `vision.py`, `watcher.py`, ... | none across calls | AppleScript, accessibility and OCR probes |

### Interactions

The broker service and the bridge service each own an App Server child (JSON lines over stdin and stdout) and a
`BrokerState`. `broker-respond` talks to the broker service through two files only: it reads `broker-state.json`, which
the service alone writes (a temporary file and a rename), and reads and appends to `broker-responses.jsonl`, which the
service truncates when it starts and reads from a cursor. Nothing locks either file. The bridge service talks to the
phone through the relay, over the secure transport, and saves whom it trusts in `device-state.json`. In every pass the
broker service may also send the operator an iMessage and read the replies from the Messages database. The supervisor is
a program of its own: it keeps a patched copy of the Remodex package, which launchd's process and the operator's commands
rebuild and start, and runs a relay, a tunnel and a bridge as its children.

### What is hard here

 - several `broker-respond` processes and the service interleave over two files without a lock;
 - a decision crosses with the App Server's own closing of the request (resolved, item completed, turn completed);
 - the service may be killed between any two of: answer written, decision recorded, state published; the files survive
   and the next run reuses them, and perhaps the request ids;
 - `select()` on a buffered stream;
 - on the bridge: handshakes of several phones, replays, resumption from a bounded buffer, reconnects, restarts; a
   phone's decision that crosses with snapshots and with the App Server; a save that is killed half way;
 - iMessage replies that are read late, pushed out of the query, or cannot be parsed;
 - two processes that rebuild one directory, each trusting a metadata file the other writes; three `launchctl` calls, of
   which one may be refused unnoticed and two end the command; two wrappers that write one state file through one
   temporary name; signals that reach the wrapper, its children, or both; children that do not end when told to.

`PROJECT.json` lists them one by one, at their lines, with the properties that watch them.

### What makes each component correct

 - Broker state: what is pending is what Codex waits on; an answered or closed request never comes back.
 - Broker service: Codex gets at most one decision per request; no queued decision is dropped; the state file and the
   audit files tell the truth; what is pending is eventually offered; what is queued is eventually handled.
 - Bridge transport: what the phone applies is a prefix, in order and without repetition, of what the bridge queued; a
   replayed or foreign envelope changes nothing; a pairing code makes one phone trusted.
 - Bridge: a phone that is told "accepted" is right; what it shows is what is pending; every request the
   bridge does not forward as `initialize` gets one answer.
 - Device state: whom the bridge has told it trusts them, it knows again, but for the one phone a kill may cost; its
   identity never changes. A kill inside a save costs the whole state.
 - Relay: a frame reaches the other sockets of its session and no others; a session exists as long as it has a socket.
 - Patched runtime: what is started is the patched copy, and whatever a kill leaves is rebuilt.
 - Launch agents: "installed" is a loaded job, and the job of the file that was written; an agent reported installed
   comes up. "removed" promises the file's removal only: that the job was refused its bootout is not reported.
 - Self-hosted wrapper: a run reaches its bridge or ends, unless a silent tunnel holds it up; what outlives a run that
   ended is a tunnel that was told to end and did not, or what an exception or a Ctrl-C cut off from the one step that
   looked after it; its end is on file.

## 2. Modules

| Module | Models | Builds on |
|---|---|---|
| `BrokerState` | class `BrokerState`: its three fields as variables, one action per handler | |
| `AppServerClient` | `AppServerClient`: the pipes and the read buffer | |
| `CodexAppServer` | the App Server child (external): items, requests and the turn | the two above |
| `BrokerService` | `run_broker_service`, the files, `enqueue_broker_response`, kills and restarts | `CodexAppServer` |
| `BrokerServiceProperties` | what must hold, and the refinement mapping to the ledger | `BrokerService`, `ApprovalLedger` |
| `ApprovalLedger` | abstract: a request is opened once, then decided once or closed | |
| `MCBrokerService` | constants for TLC | `BrokerServiceProperties` |
| `BrokerServiceProofs` | types, at most one answer; nothing forgotten, no ghosts, no stale confirmations, the end of the turn | `BrokerServiceProperties` |
| `BrokerAuditProofs` | the state file, the audit files and the queue cursor; the refinement of `ApprovalLedger` | `BrokerServiceProofs` |
| `RelaySession` | one session of `relay/server.js`: join, leave, broadcast | |
| `SecureTransport` | `BridgeSecureTransport` during one run of the bridge, one action per handler | `RelaySession` |
| `BridgeChannel` | the transport with phones (external) that pair, drop, come back and resume | `SecureTransport` |
| `MessageLog` | abstract: messages are numbered, the newest are kept, each is read once and in order | |
| `BridgeChannelProperties` | what the channel must hold, and its mapping to the log | `BridgeChannel`, `MessageLog` |
| `MCBridgeChannel` | constants for TLC | `BridgeChannelProperties` |
| `BridgeChannelProofs` | one phone per code, no replay, growing epochs; types, the buffer, the replay to one phone; the refinement of `MessageLog` | `BridgeChannelProperties` |
| `IMessageChannel` | the notifications and replies of `run_broker_service`, in its loop, and the operator's messages | `BrokerServiceProperties` |
| `MCIMessageChannel` | constants for TLC | `IMessageChannel` |
| `IMessageProofs` | the theorems of the broker service again, with both channels; what becomes of a reply | `IMessageChannel`, `BrokerAuditProofs` |
| `BridgeService` | `run_bridge_service` and `BridgeRuntime`: one action per kind of phone message, the effects in order | `CodexAppServer` |
| `BridgeServiceProperties` | what the bridge must keep, and its mapping to the ledger | `BridgeService`, `ApprovalLedger` |
| `MCBridgeService` | constants for TLC | `BridgeServiceProperties` |
| `BridgeServiceProofs` | types, its four safety invariants, the refinement of `ApprovalLedger` | `BridgeServiceProperties` |
| `DeviceTrust` | `device-state.json` over runs that end or are killed | |
| `DeviceTrustProofs` | types, the identity, and how much trust a kill costs | `DeviceTrust` |
| `MCDeviceTrust` | constants for TLC | `DeviceTrust` |
| `UpstreamRuntime` | the patched runtime: several processes that check, rebuild and launch it | |
| `LaunchAgent` | the install and uninstall commands, the build command, launchd, logouts | `UpstreamRuntime` |
| `MCLaunchAgent` | constants for TLC | `LaunchAgent` |
| `LaunchAgentProofs` | types, what commands reported, what is run and accepted as patched | `LaunchAgent` |
| `SelfHosted` | `run_selfhosted_remodex`: several runs over one port and one state file | |
| `SelfHostedProofs` | types, what children are left, the end on file | `SelfHosted` |
| `MCSelfHosted` | constants for TLC | `SelfHosted` |

`ApprovalLedger` is the abstract specification of both services: the broker service with its queue, the broker service
with iMessage as well, and the bridge each implement it, over the one `BrokerState` they share. `MessageLog` is that of
the bridge's channel towards one phone.

A definition named `Name_Slip` is `Name` with one slip of the kind a change to the code could make. No specification
uses it; it shows that the property listed with it in `PROJECT.json` depends on that line of the code.

### State and steps against the code

 - A request has a wire id (the JSON-RPC id, `WireIds`) and a request id (text, `RequestIds`): `Normalized` is
   `normalize_request_id`. It is assumed injective, which `str(value).strip()` is on the ids of one App Server: integers,
   or trimmed text. `pending` maps a request id to the wire id it stands for, so that an answer under the wrong wire id
   would be seen.
 - `loop` is where `run_broker_service` is. A step is a stretch with at most one effect another process can see:
   `LoadResponses` (293-297), `AnswerQueued` (305-333), `RecordDecision` (334-338), `RejectQueued` (311-323),
   `ReadMessage` or `ReadTimesOut` (340-350), `PublishAndContinue` or `PublishAndFinish` (401-421). `Timeout`,
   `WriteFinal`, `HandshakeFails`, `AnswerFails` and `WriteError` are the other ways out; `Kill` may come anywhere and
   writes nothing; `Start` is the next run.
 - `broker-respond` is `Ask` (the operator sees an approval in the state file), `CheckStatus`, `CheckPending`,
   `CheckQueue` and `AppendResponse`: four looks at two files, any step of anyone else in between.
 - `inbound` is what the child has written and the broker not yet returned; `buffered` counts the lines that have left
   the pipe for the text stream's buffer, which `select()` cannot see. A read that finds the buffer empty takes the first
   line of the pipe and any number of those behind it.
 - The audit files outlive a run: `approvalsLog`, `decisionsLog` and `resolutionsLog` are what the present run has
   added, `pastAudit` is what earlier runs left. `UnresolvedIds` is `summarize_broker_audit`.
 - History that the code does not keep: `sent` (what was written to the App Server), and the `run` field of a response
   and of the state file (which run's approval the operator saw).
 - `CodexAppServer` is assumed to ask once under an id and to report every request it closes. Whether it may complete a
   turn with a request open is not said anywhere, so `TurnWaits` lets a run choose.

The bridge's channel:

 - A step of `SecureTransport` is one call of the class: `HandleClientHello` (157-223), `HandleClientAuth` (225-295),
   `HandleResumeState` (297-311), `HandleEncryptedEnvelope` (313-349), `QueueOutbound` (103-123 with the trimming) and
   `Refuse` for every error branch. `ReceiveFrame` is the call from the service's loop; `ExpirePairing` is the clock.
   `on_application_message` is the application: what it queues in turn is a `QueueOutbound` of its own.
 - A frame whose number is no number (158, 233, 301, 326) raises a `ValueError` and ends the run, like a socket that
   breaks. The end of a run is not a step of the channel, which is about one run; it is `Fail` of `BridgeService`.
 - Cryptography is ideal. A proof or tag is the list of what it covers, a session key the list of what it is derived
   from, a nonce a number nobody has used. Secrets are the code of this run, what a phone derives from it, and what it
   derived from the code of an earlier run.
 - `buffer` keeps number and size; `Bytes` is `outbound_buffer_bytes`, which is changed exactly when the buffer is.
 - The relay keeps nothing: a frame reaches the phones connected at that moment. What a phone has not read when its
   socket closes is lost; what it has sent still arrives. Frames arrive at the bridge in one order for all phones.
 - The phone follows the steps of `references/bridge/secure-bridge-protocol.md`, as the transport's tests act it out: it
   takes a `serverHello` for its own nonce, a `secureReady` of its epoch (there is nothing else in it to check), and
   envelopes under its key; it reports the largest number applied. It begins every run of the bridge at 0, as sequence
   numbers and session ids begin anew with the run.
 - History: `heard` (envelopes handed on), `aired` (envelopes phones sent, which the network may repeat).

The iMessage channel:

 - `im` is where the pass is between `ReadMessage` and `PublishAndContinue` (`broker_service.py` 352-401): `Notify`,
   `Poll`, `AnswerReply`, `RecordReply`, `DropReply`. `PollFails` is a database that cannot be read, and `PollRaises` the
   `ValueError` of `parse_response_message`, which nothing in the loop catches.
 - `chat` is the Messages database for the operator's handle: it outlives the run. `seen` and `notified` do not.
 - `Polled` is the query's `LIMIT`, which counts the Mac's own messages too; `Unseen` is the
   order of the rows, newest first, each found by how many newer ones there are. A decision that is in it twice is
   dropped the second time, where `find_response_messages` leaves it out: its request is not pending any more.

The bridge service:

 - `HandlePhoneMessage` is one call of `handle_phone_message`: it changes the broker's state and the handshake state at
   once and leaves in `todo` the effects `on_application_message` then carries out one by one (151-158): to the App
   Server, to the audit files, to the phone. `Fail` may come between any two of them: a failed write, a socket that
   closes, or a frame of the phone that raises.
 - `relayed` is history: every `initialize` the run forwarded, of which the code's `forwarded` keeps only those still
   to be answered.
 - `Offered` has decisions that are none: `send_decision` takes the request out of pending before it refuses them
   (`SendInvalidDecision`).
 - The secure channel is taken for what `ChannelReplay` shows of it: `toPhone` delivers in order and once. What the
   phone shows is the last snapshot it has read.

Device state: a save is two steps, `Truncate` and `Write`, as `write_text` is; and `Truncate` leaves nothing in the file.
`intact` says whether it has been filled since. `Load` of a file that has not has no step: `json.loads` of an empty text
raises and the run ends where it began, and so does every later one. `OtherFrame` is there because the service saves
after every frame.

The patched runtime and its agents:

 - `dir` is what is at the copy's path, and `file` the two files in it that matter: the entrypoint and the file the patch
   replaces. Each is missing or of some version of the package, and the second may be the package's own (`Upstream`).
   `metadata` is the version `runtime-metadata.json` names; the file lies beside the copy and is not removed with it.
 - A process is at a step of `build_patched_runtime`: unlink or rmtree (file by file: another process may be copying),
   mkdir, copy, patch, publish. Two processes may meet in any of them, and `Collide` is the exception one of them gets.
 - `op` is the step of the operator's command. Each `launchctl` call is a step that may fail: `BootOut`, whose result is
   not looked at, then leaves the job loaded and the command goes on; the other two end it (`LaunchctlFails`).
   `LaunchdStart` is launchd's own: at load, at a kickstart, and whenever the job has ended if it is kept alive.
   `keepAlive` is which of the two agents it is.
 - The code reports "removed" or "not_found" by the file alone. `outcome` tells the two kinds of "removed" apart:
   `removed` after a bootout that worked, `unlinked` after none or a refused one.
 - History: `fresh` says that the loaded job was loaded from the file as it is now. `spoiled` is set when a process rebuilds the runtime while another is between its check and its launch, or
   when `remodex-upstream-build`, which leaves the old metadata where it is, is cut short.

The self-hosted wrapper:

 - A run is at a step of `run_selfhosted_remodex`; its children are `none`, `starting`, `up`, `told` (to end, and still
   there) or `down`; `held` is what its `finally` clause knows of. `Raise` is the `except` clause.
 - `write_json_atomic` is two steps, `WriteTemporary` and `Replace`, over one temporary name (`tmp`) that all runs
   use: a run may rename what another has written, or find nothing to rename (`WriteFails`). Opening the temporary file
   and writing it is one step; two runs that overlap in it may leave a mix, which is `Blank`, as is the file a disk that
   failed has left.
 - Every step that may raise has a failing path: a log or a program that cannot be opened, a line of cloudflared's that
   cannot be decoded or logged (`TunnelLineFails`), a tunnel that does not end in time, a public address that is none,
   and the writes of the state file. A first write that fails is before the `try`: the run is `aborted`.
 - `Interrupt` is Ctrl-C: it reaches every process of the terminal, and what the wrapper does with it depends on where
   it is; it may come between the start of a child and its assignment. `Killed` is a signal python has no handler for:
   it reaches the wrapper alone.
 - History: `unwritten` (the disk did not take the error), `dropped` (an exception or a Ctrl-C left a step that alone
   looked after a child), `signalled`. `Public` are the runs with an address of their own, `Mortal` the children that may
   die by themselves, and `MaxMishaps` bounds everything that goes wrong.
 - Deadlines are steps that may be taken at any time. The relay's port is one for all runs; a health check is answered by
   whichever relay has it.

## 3. Runs

Integer wire ids `1..n`, their text as request ids. Deadlock is checked where the system is to go on for ever
(`AgentRuntime`) or has a step of its own for being over (`SelfHosted`, `Finished`). Elsewhere the system really stops:
the services end, clients are done, and the numbers of runs, messages and kills are bounded.

| Run | Instance | Shows |
|---|---|---|
| `BrokerRace` | 1 request, 2 clients, 2 decisions, 2 runs, 2 responses; clients and decisions symmetric | `AtMostOneAnswer`, `PublishedStateCurrent`, `AuditMatchesAnswers`, `NoResponseDropped`, `AnsweredNeverStale`, and the refinement `ImplementsLedger` |
| `BrokerItems` | 2 requests of 2 items, 1 client, 1 run; one item reported while in progress, a turn that waits | `NoLostApproval`, `NoGhostApproval`, `AuditListsPending`, `CompletedMeansDone` |
| `BrokerLiveness` | 1 request, 2 clients, 2 decisions, fair | `QueueDrained`, `PendingPublished` |
| `BrokerBufferedLine` | 1 request, fair | violated: an approval stuck in the read buffer |
| `IMessage` | 1 request, 1 client, 2 messages in the database, a query of 1, malformed replies, fair | `BothChannelsRecorded`, `ReplyHonoured`, `NewestRead`, and the refinement `ImplementsLedger` |
| `ChannelReplay` | 1 phone, up to 3 connections, 5 messages of sizes 1, 2 and 4, a buffer of 2 messages or 3 units, fair | `BufferIsRecent`, `NothingMissing`, `AppliesInOrder`, `Delivered`, `PhoneHeard`, and the refinement `ImplementsLog` |
| `ChannelPairing` | 2 symmetric phones, repeated envelopes | `OnePhonePerCode`, `NoReplay`, `EpochsGrow` |
| `BridgeService` | 1 request, a valid decision and one that is none, 2 messages of every kind from the phone, 1 run | `AcceptedIsAnswered`, `ViewIsCurrent`, `ApprovalKept`, `RequestsAnswered`, and the refinement `BridgeKeepsLedger` |
| `DeviceTrust` | 4 phones, 2 kills, 3 identities | `TrustSurvives`, `OneIdentity` |
| `AgentRuntime` | both agents, 2 versions of the package, 2 crashes or logouts, fair | `ReportedIsSo`, `LaunchedIsPatched`, `AcceptedIsComplete`, `InstalledAgentRuns` |
| `SelfHosted` | 2 runs, one with a tunnel and one with a public address, 2 mishaps of any kind, fair | `NoChildLeft`, `EndIsRecorded`, `StartupDecides` |
| `SelfHostedOrphan` | 2 runs with public addresses, at most 1 mishap | violated: a bridge behind the relay of another run |

**Why the bounds are enough.** A race for a request needs two processes, two different decisions and one request. Two
responses are one more than can be answered, and two runs let every file of a run meet the next. Interference between
requests goes through the item they share or do not share, so two requests of one item and two of two items cover it.
`Reported` bounds which items are reported while in progress: it adds nothing to the state but the guard of
`_cleanup_for_item`. The proofs do not depend on any of these bounds.

For the channel, `MaxHellos` bounds the nonces drawn, two for each connection: three connections are an earlier session,
one that is given up and one that is resumed. Five messages overflow a buffer of two twice over, two messages of size
2 exceed the byte limit although there are only two, and one of size 4 is over the limit alone and empties the buffer,
itself included. Two phones are enough for two
handshakes to overlap. `MaxWire` bounds the frames waiting at the bridge when a phone sends another.

In `IMessage` a query of one message is pushed past by a second one, and a reply and a queued decision for one request
are the race between the two channels. In `BridgeService` two messages are a second tap, a tap after a wrong one, or a
question that crosses with a tap; interference between requests is `BrokerState`'s and covered by `BrokerItems`. In
`DeviceTrust` there are more phones than kills, so that a kill that cost two would be seen. In `AgentRuntime` two
versions are an upgrade, and two crashes hit a rebuild and the rebuild of what it left. In `SelfHosted` two mishaps
are a Ctrl-C at work and one in the teardown, a kill and what the next run meets, or a failure and the failure to record
it; two runs meet over the port, the temporary name and the state file, and only one of them has a tunnel because a
tunnel meets nothing of another run's.

**What the violations mean.** Both are behaviours of the code as it is. In `BrokerBufferedLine` the line is read as
soon as Codex writes anything else; if it waits for the answer, it never does. In `SelfHostedOrphan` another run's relay
has the port, because that run still goes on or because it was killed and its relay was not. The next run asks the port
for its health and is answered by that relay, before its own has found the port taken; the bridge is then started behind
a relay that is not its run's, and that ends with the other run or with nobody.

**Conditions the properties state.** Where the code does not keep a promise in every case, the property says when it
does, and the state that decides it is in the module:

 - `LaunchedIsPatched`, `AcceptedIsComplete`, `InstalledAgentRuns`: unless the runtime is `spoiled`. Nothing keeps two
   rebuilds apart: an agent can start node between another's copy and patch, or a file be removed after it was copied and
   the hole be published as complete, after which no restart rebuilds it.
 - `ViewIsCurrent`, `ApprovalKept`: except for a request the phone has made a decision for that is none (`DecidedWrongly`),
   which is gone from pending while the App Server waits, so that the valid decision that follows is refused.
 - `TrustSurvives`: each kill may cost one phone its trust, because `secureReady` goes out before the save; and unless
   the file is `Destroyed`. A kill between the two steps of a save leaves an empty file that ends every later run: the
   trust of every phone is gone, and the identity is not replaced, so that the bridge stays down until somebody removes
   the file.
 - `RequestsAnswered`: every request but an `initialize` that was forwarded. The bridge has initialized the App Server
   itself but does not know it, forwards a phone's `initialize` while it is `cold`, and keeps the answer. Once it is
   `warm` it answers an `initialize` itself, and must.
 - `ReportedIsSo`: of a "removed" the file's absence in any case, the job's only if launchctl did not refuse. The help of
   `cli.py` (330, 364) says "Unload and remove"; a refused bootout leaves the job loaded and running until the next
   logout, and the report reads the same.
 - `NoChildLeft`: but a tunnel that never named its URL and ignores SIGTERM (waited for, not killed), and runs that were
   `dropped`: a line that cannot be decoded or logged leaves a living tunnel that nobody tells to end.
 - `EndIsRecorded`: for a run that is over, that nobody signalled, whose error the disk took, and whose state file no
   other run has written since. A run whose first write failed is `aborted` and has nothing on file that is its own last
   word; another run may rename its "starting" into place.
 - `StartupDecides`: but a run that waits for a line of a tunnel that lives and prints nothing.
 - `CompletedMeansDone`: if the App Server waits for its requests before it ends a turn (`TurnWaits`).
 - The replay properties of the channel are checked with one phone. Two overlapping handshakes have one epoch, which is
   all `secureReady` and `resumeState` name: with a second phone, `AppliesInOrder` fails.

**Seen in the modules and promised nowhere.** Two `broker-respond` processes may both be told "queued" for one request
(what Codex is sent is still one decision). A decision queued for one run's approval answers the next run's of the same
id, and a reply in the Messages database does the same. A killed service leaves a state file that accepts responses. A
reply in JSON whose decision is none ends the run, and the next one too. An install of the Terminal's agent opens two
windows: `RunAtLoad` and the kickstart.

### Fairness

`FairSpec` assumes weak fairness of the service's steps (one thread in a loop with a bounded poll), of each started
`broker-respond` (a process that never waits on another), and of the App Server taking what is on its stdin. It assumes
nothing of what the App Server sends, of the operator, of timeouts, of kills or of a next run. That is why the liveness
properties have "or the loop ends" as an alternative, and why `ApprovalReachesOperator` may fail without any unfairness.

`IMFairSpec` adds that the pass goes on and that a database that is locked at one poll is not locked at every one (strong
fairness of `Poll`): Messages locks it for its own writes only. It assumes nothing of what the operator writes.

The agents' `FairSpec` assumes that launchd starts a job that is due, that a command that was given and a process that
was started go on, and that the login check of `run_upstream_remodex` succeeds if it is made often enough (strong
fairness of a launch that succeeds). It assumes no command.

The self-hosted `FairSpec` assumes that a wrapper goes on (weak fairness of `Onward`): its waits have deadlines, and in
the teardown it kills a child that does not end. The wait for a line of cloudflared's has none, as the deadline is
looked at only after a line: it is fair only once the tunnel is down. Of a child nothing is assumed, neither that a
relay binds nor that one that was told to end does, and nothing of mishaps.

The channel's `FairSpec` assumes that the bridge reads a frame that has come (its loop polls the socket) and that a phone
handles a frame that has reached it. It assumes nothing of connections, of messages or of what the network repeats.

## 4. Proofs

Every safety property the passing runs check is also a theorem, for every value of the constants. The assumptions
are the ones the modules name: `NormalizedAssumption` (different wire ids have different request ids), `ItemAssumption`, `NoWireAssumption`, `TurnWaitsAssumption`, `BoundsAssumption` and `NoDecisionAssumption` for the
broker; `IMessageAssumption` (a limit of at least one) for the iMessage channel as well; `OfferedAssumption` and
`BridgeBoundsAssumption` for the bridge as well; `SizesAssumption`, `LimitsAssumption` and
bounds in `Nat` for the channel; `DeviceTrustAssumption` (finitely many phones), `AgentAssumption`, `RuntimeAssumption`
and `SelfHostedAssumption`. None bounds the number of requests, items, clients, phones, messages, runs or responses. Three
theorems have a hypothesis besides, `Alone`: at most one phone.

| Theorem | Statement |
|---|---|
| **Broker service** | |
| `TypeCorrect`, `AnsweredOnce` | `Spec => []TypeOK`, `Spec => []AtMostOneAnswer` |
| `ApprovalsKept`, `NothingGhostly` | `Spec => []NoLostApproval`, `Spec => []NoGhostApproval` |
| `ConfirmationsNotStale` | `Spec => []AnsweredNeverStale` |
| `CompletedListsNothing` | `Spec => []CompletedMeansDone` |
| `StateFileCurrent`, `DecisionsRecorded` | `Spec => []PublishedStateCurrent`, `Spec => []AuditMatchesAnswers` |
| `NothingDropped`, `AuditComplete` | `Spec => []NoResponseDropped`, `Spec => []AuditListsPending` |
| `LedgerImplemented` | `Spec => ImplementsLedger` |
| **Broker service with an iMessage handle** | |
| `IMTypes`, `BothRecorded` | `IMSpec => []IMTypeOK`, `IMSpec => []BothChannelsRecorded` |
| `IMLedgerImplemented`, `RepliesHonoured` | `IMSpec => ImplementsLedger`, `IMSpec => ReplyHonoured` |
| `IMAnsweredOnce`, `IMNothingDropped` | `IMSpec => []AtMostOneAnswer`, `IMSpec => []NoResponseDropped` |
| `IMStateFileCurrent`, `IMAuditComplete` | `IMSpec => []PublishedStateCurrent`, `IMSpec => []AuditListsPending` |
| `IMApprovalsKept`, `IMNothingGhostly` | `IMSpec => []NoLostApproval`, `IMSpec => []NoGhostApproval` |
| `IMConfirmationsNotStale` | `IMSpec => []AnsweredNeverStale` |
| `IMCompletedListsNothing` | `IMSpec => []CompletedMeansDone` |
| **Bridge service** | |
| `BridgeTypes` | `Spec => []TypeOK` |
| `AcceptedHolds`, `PhoneShowsPending` | `Spec => []AcceptedIsAnswered`, `Spec => []ViewIsCurrent` |
| `EachAnsweredOnce`, `RequestsKept` | `Spec => []RequestsAnswered`, `Spec => []ApprovalKept` |
| `LedgerKept` | `Spec => BridgeKeepsLedger` |
| **Bridge channel** | |
| `ChannelTypes`, `BufferKept` | `Spec => []TypeOK`, `Spec => []BufferIsRecent` |
| `PairsOnePhone`, `ReplaysRefused`, `EpochsIncrease` | `Spec => []OnePhonePerCode`, `Spec => []NoReplay`, `Spec => EpochsGrow` |
| `NothingGoesMissing`, `AppliedInOrder` | `Alone` implies `Spec => []NothingMissing` and `Spec => AppliesInOrder` |
| `LogImplemented` | `Alone` implies `Spec => ImplementsLog` |
| **Device state** | |
| `TrustTypes`, `IdentityKept`, `TrustCost` | `Spec => []TypeOK`, `Spec => OneIdentity`, `Spec => []TrustSurvives` |
| **Launch agents and patched runtime** | |
| `AgentTypes`, `ReportsHold` | `Spec => []TypeOK`, `Spec => []ReportedIsSo` |
| `RunsPatched`, `AcceptsComplete` | `Spec => []LaunchedIsPatched`, `Spec => []AcceptedIsComplete` |
| **Self-hosted wrapper** | |
| `SelfHostedTypes`, `NothingLeft`, `EndOnFile` | `Spec => []TypeOK`, `Spec => []NoChildLeft`, `Spec => []EndIsRecorded` |

None of the properties is inductive as it stands. The strengthenings below were also checked by TLC, on the instance of
the run that checks the property.

### The broker service

**Types** (`TypeInv`) are `TypeOK` in named parts, and one thing the code relies on: while a decision is being recorded
the response is still at hand (`loop = "audit" => batch # <<>>`).

**At most one answer.** Nothing in the queue stops a second decision; what does is that a request that has been answered
is not pending and will not become pending again. `Phases` says where a run's history can be non-empty, and `Known` says
of every request what the broker and the App Server agree on: one the App Server has not asked has left no trace, one
whose approval message is still on its way has not been answered or recorded, a wire id is on its way at most once, and a
pending request is unanswered, recorded and in place under its own id. `IInv == TypeInv /\ Phases /\ Known` is inductive
(`Inductive`), one step per action, and `Known` allows `AnswerQueued` only for an unanswered request.

**Nothing forgotten, no ghosts.** The order of the pipe is what these rest on, and `PipeInv` is that order: a message that
closes a request is behind the one that asks it, there is one resolution at most, and it was written when the request was
closed. `Agreed` then says, through every point of the loop, what the two properties say at the top of it.

**No stale confirmations.** `StaleInv`: an answered id is remembered until its one resolution has been read
(`Remembered`), and a request recorded as resolved elsewhere can never be answered (`StaleIsOver`). **The end of the turn**,
where the App Server waits for its requests: `TurnInv` puts `turn/completed` last in the pipe, so that with `NoGhost`
nothing is pending when it is read.

**The files.** `StateFileCurrent` strengthens its property with what a pass may have left unpublished at each point of
the loop; `DecisionsRecorded` with the one answer between sending and recording; `NothingDropped` with "the batch is the
stretch of the queue file behind the lines handled". `AuditComplete` needs `RecordsInv`: whatever any file, process or
queue line names was asked and recorded so (`AskedIds`), an open request is recorded or still to be read (`OpenIsAsked`),
a record that says a request is over is right (`AccountedIsOver`), and what is over has such a record, or is about to
(`OverIsAccounted`).

**Refinement.** `LedgerStatus` reads the status of a request off the service's state: open if pending, decided if
answered, closed if recorded and neither, else none. Each step is shown to open, decide or close in the ledger, to begin a
new run, or to stutter; the facts of `Known` are what rules out opening or deciding twice.

### The iMessage channel

With a handle the service has a second way to answer, and nothing of the above may depend on there being one only. The
proofs use that `IMSpec` adds little to `Spec`: by `StepCases` a step of it is a step of `Spec` (or changes nothing of
its variables), or one of the four in which the pass answers a reply, fails to, records the answer, or raises. So each
invariant of the broker service is carried over by its own lemma and four cases, and the lemmas about an answer are
stated for any response that is sent, queued or not (`Answers`). `Pass` places those steps: messages are looked at between
the reading of a line and the publishing of the state, so no queued response is being handled then.

What is recorded one step late needs a weaker form. Between a reply's answer and its record (`im = "record"`) the
decisions file is one behind (`BothAuditInv`), the state file may lag although `changed` does not say so (`IMPublishInv`),
and a request is over that no record accounts for (`IMOverIsAccounted` in `IMRecordsInv`). In that window only other
processes run, or a kill ends it, and `Beside` says what they leave alone.

**A reply is honoured** (`RepliesHonoured`): a message is marked seen before anyone looks whether its request is pending,
and is not looked at again. It could be lost if the operator's reply were read before the broker knew the request.
`ChatInv` rules that out: a message that names this run names a request this run has recorded, because it answers a
notification, and a notification is sent for what the pass has just read. A recorded request that is not pending is
answered or closed (`Agreed`, and `OutboundInv` for the answer that is still on its way to Codex).

The list a poll returns (`Unseen`) is ordered by rank. `RankExists` is that each number from one to how many places
there are is the rank of one of them: the least place that fewer than so many follow, itself included, comes right after
it. `UnseenReplies` is that the list therefore consists of replies.

### The bridge service

`BaseInv` is types, the phases of a run, the order in which the phone's messages are taken, and that what is pending is
filed under its own id. On it rest four invariants about the effects a handler leaves to be carried out (`todo`), the
messages on their way to the phone, and what the phone has read, one clause for each place a message can be in:

 - `PromiseInv`: "accepted" is behind the effects that send the decision and record it (`ToBeTold`), and on its way or
   read only when they are done (`BeingTold`, `WasTold`).
 - `ShownInv`: a snapshot among the effects has what is pending; when none is, the last one on its way has, and when none
   is on its way, the phone shows it.
 - `ReplyInv`: a reply is in one place only, to a message that was taken and not replied to, and a request that was
   taken has one, unless it is an `initialize` in `relayed`.
 - `KeptInv`: a request the App Server waits on is unread, pending or being answered, through every step of a handler.

The ledger rests on `Known` again: a request that was not asked, or whose message is unread, is new to the bridge, and one
that is pending can be answered once.

### The bridge channel

`ChannelInv` is inductive and assumes nothing of the constants. `HandshakeInv`: a handshake under way has the next epoch,
and while one begun with the code is under way the code has not been spent. `PairingInv`: until it is spent, nobody is
paired with it. Together they give one phone per code, although hellos do not spend it. `SessionInv` and `HeardInv`: the
session's epoch is below the next and part of its key, and what has been heard under that key has no counter above the
session's; a new session has a key nothing was heard under. `CounterInv` says that counters are numbers wherever they are.

`RecentInv` is `TypeOK`, `SecretInv` (a handshake by trust has a phone's shared secret) and `BufferIsRecent`. It rests on
two lemmas about the buffer. `TrimDropsOldest`: trimming keeps an end of the buffer that fits, the longest. It is the
least number of messages dropped, and there is one because the empty buffer fits (well-foundedness of `<` on `Nat`).
`MissingIsTheEnd`: as the numbers have no gap, what a phone has not applied is an end of the buffer too. That is why
`Missing` picks entries by their rank (`Picked`) and not with `SelectSeq`, whose definition is recursive; the bytes of a
buffer are a fold, and the proof needs it of the empty buffer only.

`LinkInv` adds what is on its way to a phone that is alone, to have `NothingMissing` and `AppliesInOrder`:

 - `PastInv`: frames on their way are of epochs and numbers that were given.
 - `LateInv`: a handshake a phone has under way is behind everything of earlier sessions (`Late`). The phone that becomes
   ready therefore finds no envelope of its own session before its `resumeState`, and the bridge has not read one.
 - `ReportInv`: a phone has applied at least what a `resumeState` on the wire reports.
 - `OnlineInv`: a phone that has begun to connect has a socket, so that it gets what is broadcast.
 - `InTurn`: before an envelope on its way are all buffered messages between it and the last one applied.

`Alone` is a real condition: `ReportInv` fails with a second phone that has applied less, and so do both properties.

**Refinement.** `MessageLog` knows no sessions: what was queued is `nextSeq - 1`, the least number kept is
`nextSeq - Len(buffer)`, and a reader has applied `lastApplied`. Trimming moves the least number kept up and at most past
the newest (`LogQueues`, from `TrimDropsOldest`); what a phone passes over is not buffered, and as the buffer has no gap
it is below that number (`LogReads`); every other step is a stutter.

### The device state, the launch agents, the wrapper

**The device state** rests on `TrustInv`: in a run that is up, memory and file agree, so what a save under way would add is
one phone at most, the one told last. A kill before the file is emptied therefore adds one phone to those forgotten at
most, nothing else adds any, and a kill after it is `Destroyed` for good (`DestroyedStays`); `TrustCost` is for a finite
set of phones. Once a phone is paired the file is there, filled or empty, and a file that is there is never taken for
none, so that no other identity is ever made (`IdentityKept`).

**The launch agents.** `CommandInv` says what a command has done before each of its steps, and that what a finished one
reported is so: a kickstart comes after a bootstrap that loaded the job from the present file, and the step that reports
the job gone only after a bootout that worked. `ReportsHold` follows. `RuntimeInv`: unless the runtime is spoiled, nobody else is at work while one process
rebuilds, each process has done what its step comes after (`Working`), and metadata that match while nobody rebuilds mean
a complete copy. `RunsPatched` and `AcceptsComplete` are two of its clauses.

**The self-hosted wrapper.** `ChildInv` says which of a run's children may be alive: none before the first state file is
written (`Early`), and then, unless it was `dropped` (`ChildrenKnown`), only children its `finally` clause holds, a tunnel
whose URL is waited for or that was told to end, and the bridge while it is in the foreground. `NothingLeft` follows.
`FileInv`, one clause per run (`FileInvOf`), is about the shared temporary file: what a run wrote is there only until it
renames it or writes again, and if another run has renamed its last word, that word is in place or was written over by
the other. It says nothing of runs whose words may be renamed later (`Excused`). `EndOnFile` follows.

### Only model-checked

 - All liveness properties (`QueueDrained`, `PendingPublished`, `NewestRead`, `Delivered`, `PhoneHeard`,
   `InstalledAgentRuns`, `StartupDecides`). Liveness under fairness and `ENABLED` are out of the prover's reach, as are induction over
   data (what the fold over a buffer adds up to) and recursive operators.
 - The violations, which are counterexamples.

## 5. Not modelled

 - The relay's other sessions, their deletion and its heartbeat. What the bridge sees of a heartbeat is a phone's socket
   that closes (`Disconnect`) or its own (`Fail`), and both may happen at any time.
 - The Remodex study (`remodex/*.js`): the same protocol in JavaScript, which no launch path runs.
 - The WebSocket framing of `ws_client.py`; certificates, environments and the spelling of URLs in `remodex_upstream.py`.
 - Half-written lines of the queue and audit files: a line is far below the size of the write buffer and is appended with
   one flush, so that no reader meets one.
 - The App Server's handshake is one step that succeeds or fails; the JSON of a message is its kind and its ids.
 - `replay_messages` and the commands that only print; texts, summaries, timestamps, operator notes and QR images.
 - Two bridges on one device-state directory. Nothing starts a second one.
 - The script of the Terminal window, which under `set -euo pipefail` ends with a wrapper that fails.
 - The UI fallbacks (AppleScript, accessibility, OCR), which keep no state between calls.
 - The experimental iOS client under `ios/` is not the modelled phone: after a bootstrap it derives its session key from
   the pairing secret and the bridge from the trusted secret, and it sends its application messages unencrypted and
   without a `kind`, which the bridge drops.

## 6. What is left

In order of importance:

1. `Relay`: sessions, sockets, broadcast and the heartbeat, refined to "a session exists iff it has a socket".
2. Pure algorithms as operators against a reference: `parse_response_message`, WebSocket length encoding, item merging.
