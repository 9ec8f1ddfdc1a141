----------------------------- MODULE LaunchAgent -----------------------------
(***************************************************************************)
(* The launchd agents of cra/remodex_upstream.py: the background agent     *)
(* that keeps remodex-upstream-run alive (KeepAlive), and the login agent  *)
(* that opens the self-hosted wrapper in a Terminal.  An operator's        *)
(* install and uninstall commands change the plist and ask launchctl; each *)
(* launchctl call is a step of its own, and may fail.  Agent is the        *)
(* process launchd starts and Operator a command of the operator: both     *)
(* work on the patched runtime of UpstreamRuntime, each on its own.        *)
(***************************************************************************)
EXTENDS UpstreamRuntime

CONSTANTS
    Agent, Operator,  \* two members of Procs
    MaxOpened         \* how many Terminal windows are followed

ASSUME AgentAssumption ==
    /\ Agent # Operator
    /\ Procs = {Agent, Operator}
    /\ MaxOpened \in Nat

VARIABLES
    keepAlive, \* which agent: the background agent, or the Terminal's
    plist,    \* the agent's file is in ~/Library/LaunchAgents
    job,      \* launchd has the job loaded
    fresh,    \* history: the job was loaded from the file as it is now
    due,      \* launchd owes the job a start: RunAtLoad, or a kickstart
    op,       \* the step the operator's command is at
    outcome,  \* what the last command that ended reported
    opened,   \* the Terminal windows opened since the login
    spoiled   \* history: two processes worked on the runtime at once, or a
              \* remodex-upstream-build was cut short

agentVars == <<keepAlive, plist, job, fresh, due, op, outcome, opened>>

(* What the steps of a command on the runtime leave alone. *)
launchdVars == <<keepAlive, plist, job, fresh, due, opened>>

sysVars == <<runtimeVars, agentVars>>
vars == <<sysVars, spoiled>>

Init ==
    /\ RuntimeInit
    /\ keepAlive \in BOOLEAN
    /\ spoiled = FALSE
    /\ plist = FALSE /\ job = FALSE /\ due = FALSE /\ fresh = FALSE
    /\ op = "none" /\ outcome = "none" /\ opened = 0

Installing == {"install", "installAndLoad"}

(* The processes of S are killed, wherever they are. *)
Kill(S) ==
    /\ pc' = [p \in Procs |-> IF p \in S THEN "idle" ELSE pc[p]]
    /\ todo' = [p \in Procs |-> IF p \in S THEN {} ELSE todo[p]]
    /\ loaded' = [p \in Procs |-> IF p \in S THEN Missing ELSE loaded[p]]
    /\ UNCHANGED <<installed, dir, file, metadata, want>>

(* launchd's own: unloading kills the job's process, unless the job only   *)
(* asked Terminal to run it.                                               *)
KillJob == Kill(IF keepAlive THEN {Agent} ELSE {}) /\ UNCHANGED crashes

-----------------------------------------------------------------------------
(* install_launch_agent: the payload needs the runtime, the file is        *)
(* written, and with bootstrap=True launchctl is asked three times.        *)
Install(kind) ==
    /\ op = "none"
    /\ op' = kind
    /\ Start(Operator)
    /\ UNCHANGED <<launchdVars, outcome>>

PrepareRuntime ==
    /\ op \in Installing
    /\ Build(Operator)
    /\ IF pc'[Operator] = "idle" THEN op' = "none" /\ outcome' = "failed"
                                 ELSE UNCHANGED <<op, outcome>>
    /\ UNCHANGED launchdVars

(* A job that is loaded goes on as the file was when it was loaded. *)
WriteAgentFile ==
    /\ op \in Installing
    /\ pc[Operator] = "ready"
    /\ plist' = TRUE /\ fresh' = FALSE
    /\ IF op = "install" THEN op' = "none" /\ outcome' = "written"
                         ELSE op' = "bootout" /\ UNCHANGED outcome
    /\ Kill({Operator})
    /\ UNCHANGED <<crashes, keepAlive, job, due, opened>>

(* bootout is given the path of the file: without the file it can do        *)
(* nothing, and it may refuse anyway.  Its result is not looked at.        *)
BootOut ==
    /\ op \in {"bootout", "removal"}
    /\ \/ /\ plist
          /\ job' = FALSE /\ fresh' = FALSE /\ due' = FALSE
          /\ KillJob
          /\ op' = IF op = "bootout" THEN "bootstrap" ELSE "unlink"
       \/ /\ UNCHANGED <<job, fresh, due, runtimeVars>>
          /\ op' = IF op = "bootout" THEN "bootstrap" ELSE "unlinkOnly"
    /\ UNCHANGED <<keepAlive, plist, outcome, opened>>

(* Slip, for a mutant of Bootstrap: check=False, as for bootout. *)
Bootstrap_Unchecked ==
    /\ op = "bootstrap"
    /\ op' = "kickstart"
    /\ \/ ~job /\ job' = TRUE /\ fresh' = TRUE /\ due' = TRUE
       \/ UNCHANGED <<job, fresh, due>>
    /\ UNCHANGED <<keepAlive, runtimeVars, plist, outcome, opened>>

(* launchctl does not load a job that is loaded. *)
Bootstrap ==
    /\ op = "bootstrap"
    /\ ~job
    /\ job' = TRUE /\ fresh' = TRUE /\ due' = TRUE
    /\ op' = "kickstart"
    /\ UNCHANGED <<keepAlive, runtimeVars, plist, outcome, opened>>

Kickstart ==
    /\ op = "kickstart"
    /\ job
    /\ due' = TRUE
    /\ op' = "none" /\ outcome' = "installed"
    /\ KillJob
    /\ UNCHANGED <<keepAlive, plist, job, fresh, opened>>

(* check=True: a launchctl that refuses raises, and the rest is not done. *)
LaunchctlFails ==
    /\ op \in {"bootstrap", "kickstart"}
    /\ op' = "none" /\ outcome' = "failed"
    /\ UNCHANGED <<launchdVars, runtimeVars>>

(* uninstall_launch_agent: --no-bootout leaves the loaded job alone. *)
Uninstall(bootout) ==
    /\ op = "none"
    /\ op' = IF bootout THEN "removal" ELSE "unlinkOnly"
    /\ UNCHANGED <<launchdVars, runtimeVars, outcome>>

(* What is reported depends on the file alone: "unlinked" is the "removed"  *)
(* of a command that booted nothing out, because it was not asked to or    *)
(* because launchctl refused.                                              *)
Unlink ==
    /\ op \in {"unlink", "unlinkOnly"}
    /\ plist' = FALSE /\ fresh' = FALSE
    /\ outcome' = IF ~plist THEN "notFound"
                  ELSE IF op = "unlink" THEN "removed" ELSE "unlinked"
    /\ op' = "none"
    /\ UNCHANGED <<keepAlive, runtimeVars, job, due, opened>>

(* launch_agent_status *)
Status == [plist_exists |-> plist, loaded |-> job]

-----------------------------------------------------------------------------
(* Slip, for a mutant of LaunchdStart: a payload without KeepAlive. *)
LaunchdStart_AtLoadOnly ==
    /\ job /\ due
    /\ due' = FALSE
    /\ keepAlive /\ Start(Agent) /\ UNCHANGED opened
    /\ UNCHANGED <<keepAlive, plist, job, fresh, op, outcome>>

(* launchd starts the job at load, at a kickstart, and whenever it ended   *)
(* if it is kept alive.  The login agent's job is over when Terminal was   *)
(* asked to run the wrapper, which launchd knows nothing of.               *)
LaunchdStart ==
    /\ job
    /\ due' = FALSE
    /\ \/ keepAlive /\ Start(Agent) /\ UNCHANGED opened
       \/ /\ ~keepAlive /\ due /\ opened < MaxOpened
          /\ opened' = opened + 1
          /\ UNCHANGED runtimeVars
    /\ UNCHANGED <<keepAlive, plist, job, fresh, op, outcome>>

AgentStep ==
    /\ Build(Agent) \/ Launch(Agent) \/ Finish(Agent) \/ Crash(Agent)
    /\ UNCHANGED agentVars

(* The user logs out, which ends every process, and in again, which loads  *)
(* the agents that have a file.                                            *)
Login ==
    /\ crashes < MaxCrashes
    /\ crashes' = crashes + 1
    /\ Kill(Procs)
    /\ op' = "none"
    /\ outcome' = IF op = "none" THEN outcome ELSE "failed"
    /\ job' = plist /\ fresh' = plist /\ due' = plist
    /\ opened' = 0
    /\ UNCHANGED <<keepAlive, plist>>

(* remodex-upstream-build, by hand ... *)
Command ==
    /\ op = "none"
    /\ op' = "build"
    /\ StartBuild(Operator)
    /\ UNCHANGED <<launchdVars, outcome>>

CommandStep ==
    /\ op = "build"
    /\ Build(Operator) \/ Finish(Operator)
    /\ op' = IF pc'[Operator] = "idle" THEN "none" ELSE op
    /\ UNCHANGED <<launchdVars, outcome>>

(* ... and a command that works on it may be killed. *)
CommandKilled ==
    /\ Crash(Operator)
    /\ op' = "none"
    /\ outcome' = IF op \in Installing THEN "failed" ELSE outcome
    /\ UNCHANGED launchdVars

-----------------------------------------------------------------------------
Rebuilding == {"remove", "rmtree", "removing", "lost", "mkdir", "copy", "patch", "publish"}

(* One process rebuilds while another is between its check and its launch;  *)
(* a build command, which leaves the metadata of the copy it replaces in   *)
(* place, is cut short.                                                    *)
Spoils ==
    \/ \E p, q \in Procs : /\ p # q
                          /\ pc'[p] \in Rebuilding
                          /\ pc'[q] \notin {"idle", "running"}
    \/ op = "build" /\ pc[Operator] \in Rebuilding /\ pc'[Operator] = "idle"

Step ==
    \/ \E kind \in Installing : Install(kind)
    \/ PrepareRuntime \/ WriteAgentFile
    \/ BootOut \/ Bootstrap \/ Kickstart \/ LaunchctlFails
    \/ \E b \in BOOLEAN : Uninstall(b)
    \/ Unlink
    \/ LaunchdStart \/ AgentStep
    \/ Login
    \/ Command \/ CommandStep \/ CommandKilled
    \/ Upgrade /\ UNCHANGED agentVars

Next == Step /\ spoiled' = (spoiled \/ Spoils)

Spec == Init /\ [][Next]_vars

(* launchd and a process that was started go on; the login check succeeds  *)
(* if it is asked often enough.  Nobody is obliged to give a command, but  *)
(* a command that was given goes on too.                                   *)
Fairness ==
    /\ WF_sysVars(LaunchdStart)
    /\ WF_sysVars(Build(Agent) /\ UNCHANGED agentVars)
    /\ SF_sysVars(Launch(Agent) /\ pc'[Agent] = "running" /\ UNCHANGED agentVars)
    /\ WF_sysVars(PrepareRuntime \/ WriteAgentFile \/ BootOut \/ Unlink)
    /\ WF_sysVars(Bootstrap \/ Kickstart \/ LaunchctlFails)

FairSpec == Spec /\ Fairness

-----------------------------------------------------------------------------
TypeOK ==
    /\ RuntimeTypeOK
    /\ plist \in BOOLEAN /\ job \in BOOLEAN /\ due \in BOOLEAN
    /\ fresh \in BOOLEAN
    /\ op \in Installing \cup {"none", "bootout", "bootstrap", "kickstart",
                               "removal", "unlink", "unlinkOnly", "build"}
    /\ keepAlive \in BOOLEAN /\ spoiled \in BOOLEAN
    /\ outcome \in {"none", "written", "installed", "failed", "removed", "unlinked",
                   "notFound"}
    /\ opened \in 0 .. MaxOpened

(* What the last command reported is what the status command shows, logins *)
(* and failed commands in between included.  "installed" is a loaded job   *)
(* with its file, and the job is the one of that file: an old job that a   *)
(* refused bootout left in place makes bootstrap raise instead.  Any       *)
(* report of an uninstall means that the file is gone.  The job is gone    *)
(* with its process only if launchctl did not refuse, which no report      *)
(* tells (install_launch_agent, uninstall_launch_agent).                   *)
ReportedIsSo ==
    op = "none" =>
        /\ outcome = "installed" =>
              Status = [plist_exists |-> TRUE, loaded |-> TRUE] /\ fresh
        /\ outcome = "written" => Status.plist_exists
        /\ outcome \in {"removed", "unlinked", "notFound"} => ~Status.plist_exists
        /\ outcome = "removed" =>
              ~Status.loaded /\ (keepAlive => pc[Agent] = "idle")

(* No node process ever runs on the package's own device-state file, which *)
(* would ask for the Keychain at every reconnect and keep its trust in     *)
(* another place than the runs before it, wherever a rebuild was cut short *)
(* by a kill or a logout (build_patched_runtime, ensure_patched_runtime).  *)
(* Nothing keeps two rebuilds apart, and a build command leaves the old    *)
(* metadata in place: a spoiled runtime may be launched unpatched.         *)
LaunchedIsPatched ==
    ~spoiled => \A p \in Procs : pc[p] = "running" => loaded[p] # Upstream

(* Whenever no process is at work on it, a runtime the next command would  *)
(* accept is the patched copy of the version it names: what any            *)
(* interrupted rebuild leaves behind is rebuilt (_runtime_metadata_matches *)
(* is all that is looked at).                                              *)
AcceptedIsComplete ==
    (/\ ~spoiled
     /\ MetadataMatches(installed)
     /\ \A p \in Procs : pc[p] \notin Rebuilding)
        => file["state"] = installed /\ file["entry"] = installed

(* An agent reported installed comes up, whatever the install found        *)
(* running, what a killed rebuild left, and however often the agent died   *)
(* since, unless another command is given; the login agent's window opens  *)
(* (launch_agent_payload: RunAtLoad, KeepAlive).  A spoiled runtime can    *)
(* keep it from ever running again.                                        *)
AgentUp == IF keepAlive THEN pc[Agent] = "running" ELSE opened > 0

InstalledAgentRuns ==
    (op = "none" /\ outcome = "installed" /\ ~AgentUp) ~> (AgentUp \/ op # "none" \/ spoiled)
=============================================================================
