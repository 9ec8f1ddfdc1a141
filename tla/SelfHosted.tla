----------------------------- MODULE SelfHosted -----------------------------
(***************************************************************************)
(* The self-hosted wrapper: run_selfhosted_remodex of                      *)
(* cra/remodex_upstream.py.  A run starts a relay on a fixed port, waits   *)
(* for its health, puts a Quick Tunnel in front of it unless it was given  *)
(* a public address, waits for the tunnel's name, says so in a state file, *)
(* runs the bridge in the foreground, and takes its children down.  Runs   *)
(* are started by the login agent and by hand, share the port and the      *)
(* state file, and may be interrupted from the terminal (the signal        *)
(* reaches the children too) or killed (it does not).                      *)
(*                                                                         *)
(* Deadlines are steps that may be taken at any time, and so are the       *)
(* exceptions of a step: an error of the disk, a program that is not       *)
(* there, output that cannot be decoded.  The runtime and the login check  *)
(* before the first state file are UpstreamRuntime's.                      *)
(***************************************************************************)
EXTENDS Integers

CONSTANTS
    Runs,           \* the runs of the wrapper
    NoRun,
    Public,         \* those that are given --public-relay-base-url
    Mortal,         \* the children, but the bridge, that may die by themselves
    MaxMishaps      \* how often the user presses Ctrl-C, a wrapper is killed,
                    \* a child dies or does not start, or the disk fails

ASSUME SelfHostedAssumption ==
    /\ NoRun \notin Runs
    /\ Public \subseteq Runs
    /\ Mortal \subseteq {"relay", "tunnel"}
    /\ MaxMishaps \in Nat

VARIABLES
    pc,         \* where each run is
    child,      \* its three children
    held,       \* those its finally clause knows of
    status,     \* state_payload["status"] of each run
    port,       \* the run whose relay listens
    tmp,        \* selfhosted-state.json.tmp, one for all runs
    state,      \* selfhosted-state.json
    signalled,  \* history: the runs that were interrupted
    unwritten,  \* history: the runs whose error the disk did not take
    dropped,    \* history: the runs that an exception took out of a step
                \* which alone looked after a child
    mishaps

fileVars == <<status, tmp, state, unwritten>>
vars == <<pc, child, held, port, fileVars, signalled, dropped, mishaps>>

(* What a step of a run leaves alone unless something goes wrong in it. *)
others == <<signalled, dropped, mishaps>>

Kids == {"relay", "tunnel", "bridge"}
Alive == {"starting", "up"}
Living == Alive \cup {"told"}    \* told to end, and still there
Ended == {"over", "killed", "aborted"}
LastWords == {"exited", "interrupted", "error"}

Blank == [run |-> NoRun, status |-> "none"]    \* empty, or no JSON
Nothing == [run |-> NoRun, status |-> "absent"]

Init ==
    /\ pc = [r \in Runs |-> "idle"]
    /\ child = [r \in Runs |-> [k \in Kids |-> "none"]]
    /\ held = [r \in Runs |-> {}]
    /\ status = [r \in Runs |-> "none"]
    /\ port = NoRun
    /\ tmp = Nothing /\ state = Blank
    /\ signalled = {} /\ unwritten = {} /\ dropped = {}
    /\ mishaps = 0

At(r, l) == pc[r] = l
Goto(r, l) == pc' = [pc EXCEPT ![r] = l]
Becomes(r, k, s) == child' = [child EXCEPT ![r][k] = s]

-----------------------------------------------------------------------------
(* A run puts its status into the payload and writes it. *)
Writes(r, s) ==
    /\ status' = [status EXCEPT ![r] = s]
    /\ Goto(r, "write")
    /\ UNCHANGED <<tmp, state, unwritten>>

Mishap == mishaps < MaxMishaps /\ mishaps' = mishaps + 1

(* Slip, for a mutant of Raise: the error is not written. *)
Raise_Unwritten(r) == Goto(r, "stopTunnel") /\ UNCHANGED fileVars

(* except Exception: the error is written, then the finally clause runs. *)
Raise(r) == Writes(r, "error")

(* A write that raises: the first one is outside the try, and one of the   *)
(* except clause leads to the finally clause.                              *)
WriteFails(r) ==
    \/ status[r] = "starting" /\ Goto(r, "aborted") /\ UNCHANGED status
    \/ status[r] = "error" /\ Goto(r, "stopTunnel") /\ UNCHANGED status
    \/ /\ status[r] \notin {"starting", "error"}
       /\ Goto(r, "write") /\ status' = [status EXCEPT ![r] = "error"]

DiskFails(r) ==
    /\ Mishap
    /\ WriteFails(r)
    /\ unwritten' = unwritten \cup {q \in {r} : status[q] = "error"}

(* write_json_atomic: the temporary file, whose name every run uses, is    *)
(* emptied and written.  Two runs that open it before either has written   *)
(* may leave a mix of both.                                                *)
WriteTemporary(r) ==
    /\ At(r, "write")
    /\ \/ /\ tmp' = [run |-> r, status |-> status[r]]
          /\ Goto(r, "replace")
          /\ UNCHANGED <<status, unwritten, mishaps>>
       \/ /\ \E q \in Runs \ {r} : At(q, "replace")
          /\ Mishap
          /\ tmp' = Blank
          /\ Goto(r, "replace")
          /\ UNCHANGED <<status, unwritten>>
       \/ tmp' \in {tmp, Blank} /\ DiskFails(r)
    /\ UNCHANGED <<child, held, port, state, signalled, dropped>>

AfterWrite(s) ==
    IF s = "starting" THEN "spawnRelay" ELSE IF s = "ready" THEN "launch" ELSE "stopTunnel"

(* It is renamed, whoever wrote it; another run may have done so first. *)
Replace(r) ==
    /\ At(r, "replace")
    /\ \/ /\ tmp # Nothing
          /\ state' = tmp /\ tmp' = Nothing
          /\ Goto(r, AfterWrite(status[r]))
          /\ UNCHANGED <<status, unwritten, mishaps>>
       \/ tmp # Nothing /\ DiskFails(r) /\ UNCHANGED <<tmp, state>>
       \/ tmp = Nothing /\ WriteFails(r) /\ UNCHANGED <<tmp, state, unwritten, mishaps>>
    /\ UNCHANGED <<child, held, port, signalled, dropped>>

-----------------------------------------------------------------------------
Begin(r) ==
    /\ At(r, "idle")
    /\ Writes(r, "starting")
    /\ UNCHANGED <<child, held, port, others>>

(* Slip, for a mutant of SpawnRelay: the finally clause does not know it. *)
SpawnRelay_NotHeld(r) ==
    /\ At(r, "spawnRelay")
    /\ Becomes(r, "relay", "starting")
    /\ Goto(r, "health")
    /\ UNCHANGED <<held, fileVars, port, others>>

(* Its log is opened and it is started, or one of the two raises. *)
SpawnRelay(r) ==
    /\ At(r, "spawnRelay")
    /\ \/ /\ Becomes(r, "relay", "starting")
          /\ held' = [held EXCEPT ![r] = {"relay"}]
          /\ Goto(r, "health")
          /\ UNCHANGED <<fileVars, mishaps>>
       \/ Mishap /\ Raise(r) /\ UNCHANGED <<child, held>>
    /\ UNCHANGED <<port, signalled, dropped>>

(* The relay process binds the port, or exits because another one has it. *)
RelayBinds(r) ==
    /\ child[r]["relay"] = "starting"
    /\ IF port = NoRun THEN port' = r /\ Becomes(r, "relay", "up")
                       ELSE UNCHANGED port /\ Becomes(r, "relay", "down")
    /\ UNCHANGED <<pc, held, fileVars, others>>

(* _wait_for_relay_health looks at its own process, then asks the port,    *)
(* where whichever relay listens answers.                                  *)
RelayHealthy(r) ==
    /\ At(r, "health")
    /\ child[r]["relay"] # "down"
    /\ port # NoRun
    /\ Goto(r, IF r \in Public THEN "announce" ELSE "spawnTunnel")
    /\ UNCHANGED <<child, held, fileVars, port, others>>

(* Slip, for a mutant of RelayUnhealthy: while another relay answers, the  *)
(* own one, which exited, is waited for.                                   *)
RelayUnhealthy_Waits(r) ==
    /\ At(r, "health")
    /\ IF port = NoRun THEN Raise(r) ELSE UNCHANGED <<pc, fileVars>>
    /\ UNCHANGED <<child, held, port, others>>

(* Its relay exited, or nothing answered in time. *)
RelayUnhealthy(r) ==
    /\ At(r, "health")
    /\ Raise(r)
    /\ UNCHANGED <<child, held, port, others>>

SpawnTunnel(r) ==
    /\ At(r, "spawnTunnel")
    /\ \/ /\ Becomes(r, "tunnel", "up")
          /\ Goto(r, "url")
          /\ UNCHANGED <<fileVars, mishaps>>
       \/ Mishap /\ Raise(r) /\ UNCHANGED child      \* no cloudflared, or no log
    /\ UNCHANGED <<held, port, signalled, dropped>>

(* A line of cloudflared's output names the URL: from here on the tunnel   *)
(* is the caller's to terminate.                                           *)
TunnelUrl(r) ==
    /\ At(r, "url")
    /\ held' = [held EXCEPT ![r] = @ \cup {"tunnel"}]
    /\ Goto(r, "resolve")
    /\ UNCHANGED <<child, fileVars, port, others>>

(* It exited, or printed another line after the deadline, which is looked  *)
(* at between lines only.                                                  *)
NoTunnelUrl(r) ==
    /\ At(r, "url")
    /\ IF child[r]["tunnel"] = "up" THEN Becomes(r, "tunnel", "told") ELSE UNCHANGED child
    /\ Goto(r, "reap")
    /\ UNCHANGED <<held, fileVars, port, others>>

(* A line that cannot be decoded, or not be logged: nobody but this loop   *)
(* knows the tunnel, and it is not told to end.                            *)
TunnelLineFails(r) ==
    /\ At(r, "url")
    /\ Mishap
    /\ Raise(r)
    /\ dropped' = dropped \cup {r}
    /\ UNCHANGED <<child, held, port, signalled>>

(* wait(timeout=5), whose TimeoutExpired is an exception like the other. *)
ReapTunnel(r) ==
    /\ At(r, "reap")
    /\ Raise(r)
    /\ UNCHANGED <<child, held, port, others>>

ResolveHostname(r) ==
    /\ At(r, "resolve")
    /\ \/ Goto(r, "announce") /\ UNCHANGED <<fileVars, mishaps>>
       \/ Mishap /\ Raise(r)
    /\ UNCHANGED <<child, held, port, signalled, dropped>>

(* A public address that was given may be refused as none. *)
Announce(r) ==
    /\ At(r, "announce")
    /\ Writes(r, "ready") \/ (r \in Public /\ Raise(r))
    /\ UNCHANGED <<child, held, port, others>>

Launch(r) ==
    /\ At(r, "launch")
    /\ \/ /\ Becomes(r, "bridge", "up")
          /\ Goto(r, "foreground")
          /\ UNCHANGED <<fileVars, mishaps>>
       \/ Mishap /\ Raise(r) /\ UNCHANGED child
    /\ UNCHANGED <<held, port, signalled, dropped>>

(* A bridge that returns 130 counts as interrupted. *)
ForegroundEnds(r) ==
    /\ At(r, "foreground")
    /\ child[r]["bridge"] = "down"
    /\ Writes(r, "exited") \/ Writes(r, "interrupted")
    /\ UNCHANGED <<child, held, port, others>>

(* The KeyboardInterrupt handler of _run_foreground_process: terminate,    *)
(* wait, kill, wait, and 130.                                              *)
StopBridge(r) ==
    /\ At(r, "stopBridge")
    /\ Becomes(r, "bridge", "down")
    /\ Writes(r, "interrupted")
    /\ UNCHANGED <<held, port, others>>

(* A relay that is gone gives the port back. *)
Freed(r, k) == IF k = "relay" /\ port = r THEN NoRun ELSE port

(* _terminate_child: a child that does not end within five seconds is      *)
(* killed, so the step ends it either way.                                 *)
Terminate(r, k) ==
    IF k \in held[r] THEN Becomes(r, k, "down") /\ port' = Freed(r, k)
                     ELSE UNCHANGED <<child, port>>

(* The tunnel's log is closed last; if that raises (what the drain thread  *)
(* could not write is still in its buffer), the relay is not looked at.    *)
StopTunnel(r) ==
    /\ At(r, "stopTunnel")
    /\ Terminate(r, "tunnel")
    /\ \/ Goto(r, "stopRelay") /\ UNCHANGED <<dropped, mishaps>>
       \/ "tunnel" \in held[r] /\ Mishap /\ Goto(r, "over") /\ dropped' = dropped \cup {r}
    /\ UNCHANGED <<held, fileVars, signalled>>

StopRelay(r) ==
    /\ At(r, "stopRelay")
    /\ Terminate(r, "relay")
    /\ Goto(r, "over")
    /\ UNCHANGED <<held, fileVars, others>>

-----------------------------------------------------------------------------
(* The child that is being started, which nobody holds yet. *)
BeingStarted(r) ==
    {k \in Kids : \/ k = "relay" /\ At(r, "spawnRelay")
                  \/ k = "tunnel" /\ At(r, "spawnTunnel")
                  \/ k = "bridge" /\ At(r, "launch")}

(* Where a KeyboardInterrupt leads: only the foreground wait catches it;   *)
(* elsewhere it is no Exception and runs the finally clause alone, if      *)
(* there is one yet; in the finally clause it skips what is left of it.    *)
AfterInterrupt(r) ==
    IF At(r, "foreground") THEN "stopBridge"
    ELSE IF pc[r] \in {"stopTunnel", "stopRelay"} THEN "over"
    ELSE IF pc[r] \in {"write", "replace"} /\ status[r] = "starting" THEN "aborted"
    ELSE "stopTunnel"

(* Ctrl-C: the terminal signals the wrapper and every child in front of    *)
(* it, but not one that is started just then.                              *)
Interrupt(r) ==
    /\ pc[r] \notin Ended \cup {"idle"}
    /\ Mishap
    /\ signalled' = signalled \cup {r}
    /\ \E new \in SUBSET BeingStarted(r) :
          /\ child' = [child EXCEPT ![r] =
                [k \in Kids |-> IF k \in new THEN (IF k = "relay" THEN "starting" ELSE "up")
                                ELSE IF @[k] \in Alive THEN "told" ELSE @[k]]]
          /\ dropped' = IF new # {} \/ pc[r] \in {"stopBridge", "stopTunnel", "stopRelay"}
                        THEN dropped \cup {r} ELSE dropped
    /\ Goto(r, AfterInterrupt(r))
    /\ UNCHANGED <<held, fileVars, port>>

(* The wrapper alone is killed (SIGTERM, SIGKILL): python has no handler,  *)
(* the finally clause does not run.                                        *)
Killed(r) ==
    /\ pc[r] \notin Ended \cup {"idle"}
    /\ Mishap
    /\ Goto(r, "killed")
    /\ UNCHANGED <<child, held, fileVars, port, signalled, dropped>>

(* A child that was told to end may; the bridge ends when its work does;   *)
(* the relay and the tunnel may die.                                       *)
ChildEnds(r, k) ==
    /\ \/ child[r][k] = "told" /\ UNCHANGED mishaps
       \/ child[r][k] = "up" /\ k = "bridge" /\ UNCHANGED mishaps
       \/ child[r][k] = "up" /\ k \in Mortal /\ Mishap
    /\ Becomes(r, k, "down")
    /\ port' = Freed(r, k)
    /\ UNCHANGED <<pc, held, fileVars, signalled, dropped>>

Saving(r) == WriteTemporary(r) \/ Replace(r)

Startup(r) ==
    \/ SpawnRelay(r) \/ RelayHealthy(r) \/ RelayUnhealthy(r) \/ SpawnTunnel(r)
    \/ ReapTunnel(r) \/ ResolveHostname(r) \/ Announce(r) \/ Launch(r)

UrlWait(r) == TunnelUrl(r) \/ NoTunnelUrl(r) \/ TunnelLineFails(r)

Ending(r) == ForegroundEnds(r) \/ StopBridge(r) \/ StopTunnel(r) \/ StopRelay(r)

Finished == (\A r \in Runs : pc[r] \in Ended) /\ UNCHANGED vars

Next ==
    \/ \E r \in Runs :
         \/ Begin(r) \/ Saving(r) \/ Startup(r) \/ UrlWait(r) \/ Ending(r) \/ RelayBinds(r)
         \/ Interrupt(r) \/ Killed(r)
         \/ \E k \in Kids : ChildEnds(r, k)
    \/ Finished

Spec == Init /\ [][Next]_vars

(* What a run goes on to do by itself. *)
Onward(r) ==
    \/ Saving(r) \/ Startup(r) \/ Ending(r)
    \/ child[r]["tunnel"] = "down" /\ UrlWait(r)

(* A wrapper that runs goes on: its waits have deadlines, and it kills a   *)
(* child that does not end.  The wait for cloudflared's next line has      *)
(* none, since the deadline is looked at between lines only: it is sure to *)
(* end when cloudflared does.  Of a child nothing is assumed: neither that *)
(* a relay binds nor that one that was told to end does.                   *)
Fairness == \A r \in Runs : WF_vars(Onward(r))

FairSpec == Spec /\ Fairness

-----------------------------------------------------------------------------
Places == {"idle", "write", "replace", "spawnRelay", "health", "spawnTunnel", "url", "reap",
           "resolve", "announce", "launch", "foreground", "stopBridge", "stopTunnel",
           "stopRelay"} \cup Ended

Statuses == {"none", "starting", "ready"} \cup LastWords

TypeOK ==
    /\ pc \in [Runs -> Places]
    /\ child \in [Runs -> [Kids -> {"none", "down"} \cup Living]]
    /\ held \in [Runs -> SUBSET Kids]
    /\ status \in [Runs -> Statuses]
    /\ port \in Runs \cup {NoRun}
    /\ tmp \in [run : Runs \cup {NoRun}, status : Statuses] \cup {Nothing}
    /\ state \in [run : Runs \cup {NoRun}, status : Statuses]
    /\ signalled \subseteq Runs /\ unwritten \subseteq Runs /\ dropped \subseteq Runs
    /\ mishaps \in 0 .. MaxMishaps

(* A wrapper that returned, failed or was interrupted leaves no child,     *)
(* whatever step it was at, but in two cases.  A tunnel that never named   *)
(* its URL was told to end, but is not killed if it does not.  And a step  *)
(* that alone looked after a child was itself cut off: by an exception in  *)
(* the wait for the URL or in the closing of the tunnel's log, or by a     *)
(* Ctrl-C while a child was being started or taken down (the finally       *)
(* clause, _spawn_quick_tunnel, _run_foreground_process).                  *)
NoChildLeft ==
    \A r \in Runs : At(r, "over") /\ r \notin dropped =>
        \A k \in Kids : child[r][k] \in Living =>
            k = "tunnel" /\ k \notin held[r] /\ child[r][k] = "told"

(* A wrapper nobody signalled, and whose error the disk took, ends with    *)
(* the state file saying how, unless another run has written it since:     *)
(* never "starting" or "ready" about a run that is over, though two runs   *)
(* write and rename one temporary file.  A run whose first write fails,    *)
(* which is before the try, is not over but aborted: another run may have  *)
(* put its "starting" in place (run_selfhosted_remodex, write_json_atomic).*)
EndIsRecorded ==
    \A r \in Runs :
        (At(r, "over") /\ r \notin signalled \cup unwritten /\ state.run = r)
            => state.status \in LastWords

(* The bridge runs behind a relay of its own run, as the runbook has it:   *)
(* a run whose relay could not bind the port ends instead.                 *)
BridgeOnOwnRelay ==
    [][\A r \in Runs : (~At(r, "launch") /\ At(r, "launch")') => child[r]["relay"] = "up"]_vars

(* A run that was begun gets as far as its bridge, or ends: no wait for    *)
(* the relay, the name or a stubborn child lasts for ever, nor does the    *)
(* one for the tunnel's URL, except while the tunnel lives and prints      *)
(* nothing (run_selfhosted_remodex and what it calls).                     *)
AwaitsLine(r) == At(r, "url") /\ child[r]["tunnel"] # "down"

Decided(r) == pc[r] \in Ended \cup {"foreground"}

StartupDecides ==
    \A r \in Runs : (~At(r, "idle") /\ ~AwaitsLine(r)) ~> (Decided(r) \/ AwaitsLine(r))
=============================================================================
