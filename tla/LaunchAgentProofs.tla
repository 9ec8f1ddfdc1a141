--------------------------- MODULE LaunchAgentProofs ---------------------------
(***************************************************************************)
(* Proofs about the launchd agents and the patched runtime they share, for *)
(* every value of the constants: what a command reported is so, no node    *)
(* process runs on the package's own device-state file, and a runtime the  *)
(* next command would accept is complete.                                  *)
(***************************************************************************)
EXTENDS LaunchAgent, TLAPS

-----------------------------------------------------------------------------
(***************************************************************************)
(* Types.                                                                  *)
(***************************************************************************)
LEMMA TypesInit == Init => TypeOK
<1> SUFFICES ASSUME Init PROVE TypeOK
  OBVIOUS
<1>1. file \in [Files -> Upstream .. MaxVersion]
  <2>1. 1 \in Upstream .. MaxVersion /\ Upstream \in Upstream .. MaxVersion
          /\ Missing \in Upstream .. MaxVersion
    BY RuntimeAssumption DEF Upstream, Missing
  <2>2. CASE file = Empty
    BY <2>1, <2>2 DEF Empty
  <2>3. CASE file = [entry |-> 1, state |-> Upstream]
    BY <2>1, <2>3 DEF Files
  <2> QED
    BY <2>2, <2>3 DEF Init, RuntimeInit
<1>2. RuntimeTypeOK
  BY <1>1, RuntimeAssumption DEF Init, RuntimeInit, RuntimeTypeOK, Missing, Upstream
<1>3. opened \in 0 .. MaxOpened
  BY AgentAssumption DEF Init
<1> QED
  BY <1>2, <1>3 DEF Init, TypeOK

LEMMA BuildTypes ==
    ASSUME RuntimeTypeOK, NEW p \in Procs, Build(p)
    PROVE  RuntimeTypeOK'
<1> USE RuntimeAssumption DEF RuntimeTypeOK, Goto, Upstream, Missing, Files, Empty
<1>1. CASE Ensure(p) \/ Remove(p)
  BY <1>1 DEF Ensure, Remove
<1>2. CASE RemoveTree(p)
  BY <1>2 DEF RemoveTree
<1>3. CASE MakeTree(p) \/ Copy(p)
  BY <1>3 DEF MakeTree, Copy
<1>4. CASE Patch(p) \/ Publish(p)
  BY <1>4 DEF Patch, Publish
<1>5. CASE Collide(p)
  BY <1>5 DEF Collide, Gone
<1> QED
  BY <1>1, <1>2, <1>3, <1>4, <1>5 DEF Build

LEMMA ProcessTypes ==
    ASSUME RuntimeTypeOK, NEW p \in Procs,
           Start(p) \/ StartBuild(p) \/ Launch(p) \/ Finish(p) \/ Crash(p)
    PROVE  RuntimeTypeOK'
<1> USE RuntimeAssumption DEF RuntimeTypeOK, Goto, Gone, Upstream, Missing
<1>1. CASE Start(p) \/ StartBuild(p)
  BY <1>1 DEF Start, StartBuild, Resolve
<1>2. CASE Launch(p)
  BY <1>2 DEF Launch, Files
<1>3. CASE Finish(p) \/ Crash(p)
  BY <1>3 DEF Finish, Crash
<1> QED
  BY <1>1, <1>2, <1>3

LEMMA KillTypes ==
    ASSUME RuntimeTypeOK, NEW S, Kill(S),
           UNCHANGED crashes \/ (crashes < MaxCrashes /\ crashes' = crashes + 1)
    PROVE  RuntimeTypeOK'
BY RuntimeAssumption DEF RuntimeTypeOK, Kill, Upstream, Missing

LEMMA TypesStep == TypeOK /\ [Next]_vars => TypeOK'
<1> SUFFICES ASSUME TypeOK, [Next]_vars PROVE TypeOK'
  OBVIOUS
<1> USE AgentAssumption, RuntimeAssumption DEF TypeOK, Installing
<1>0. CASE UNCHANGED vars
  BY <1>0 DEF vars, sysVars, runtimeVars, agentVars, RuntimeTypeOK
<1>1. ASSUME Step, spoiled' \in BOOLEAN
      PROVE  TypeOK'
  <2>1. ASSUME NEW kind \in Installing, Install(kind)
        PROVE  TypeOK'
    BY <1>1, <2>1, ProcessTypes DEF Install, launchdVars
  <2>2. CASE PrepareRuntime
    BY <1>1, <2>2, BuildTypes DEF PrepareRuntime, launchdVars
  <2>3. CASE WriteAgentFile
    BY <1>1, <2>3, KillTypes DEF WriteAgentFile
  <2>4. CASE BootOut \/ Kickstart
    <3>1. CASE KillJob
      BY <1>1, <2>4, <3>1, KillTypes DEF BootOut, Kickstart, KillJob
    <3>2. CASE UNCHANGED runtimeVars
      <4>1. RuntimeTypeOK'
        BY <3>2 DEF runtimeVars, RuntimeTypeOK
      <4> QED
        BY <1>1, <2>4, <4>1 DEF BootOut, Kickstart
    <3> QED
      BY <2>4, <3>1, <3>2 DEF BootOut, Kickstart
  <2>5. CASE Bootstrap \/ LaunchctlFails
    BY <1>1, <2>5 DEF Bootstrap, LaunchctlFails, launchdVars, runtimeVars, RuntimeTypeOK
  <2>6. ASSUME NEW b \in BOOLEAN, Uninstall(b)
        PROVE  TypeOK'
    BY <1>1, <2>6 DEF Uninstall, launchdVars, runtimeVars, RuntimeTypeOK
  <2>7. CASE Unlink
    BY <1>1, <2>7 DEF Unlink, runtimeVars, RuntimeTypeOK
  <2>8. CASE LaunchdStart
    <3>1. RuntimeTypeOK'
      BY <2>8, ProcessTypes DEF LaunchdStart, runtimeVars, RuntimeTypeOK
    <3>2. opened' \in 0 .. MaxOpened
      BY <2>8 DEF LaunchdStart
    <3> QED
      BY <1>1, <2>8, <3>1, <3>2 DEF LaunchdStart
  <2>9. CASE AgentStep
    BY <1>1, <2>9, BuildTypes, ProcessTypes DEF AgentStep, agentVars
  <2>10. CASE Login
    BY <1>1, <2>10, KillTypes DEF Login
  <2>11. CASE Command
    BY <1>1, <2>11, ProcessTypes DEF Command, launchdVars
  <2>12. CASE CommandStep
    BY <1>1, <2>12, BuildTypes, ProcessTypes DEF CommandStep, launchdVars
  <2>13. CASE CommandKilled
    BY <1>1, <2>13, ProcessTypes DEF CommandKilled, launchdVars
  <2>14. CASE Upgrade /\ UNCHANGED agentVars
    BY <1>1, <2>14 DEF Upgrade, agentVars, RuntimeTypeOK
  <2> QED
    BY <1>1, <2>1, <2>2, <2>3, <2>4, <2>5, <2>6, <2>7, <2>8, <2>9, <2>10, <2>11, <2>12,
       <2>13, <2>14 DEF Step
<1>2. Next => spoiled' \in BOOLEAN
  BY DEF Next
<1> QED
  BY <1>0, <1>1, <1>2 DEF Next

(***************************************************************************)
(* Every variable of the agents and of the runtime keeps its type.         *)
(***************************************************************************)
THEOREM AgentTypes == Spec => []TypeOK
<1> QED
  BY TypesInit, TypesStep, PTL DEF Spec

-----------------------------------------------------------------------------
(***************************************************************************)
(* Commands.  Between its steps a command has no process at work on the    *)
(* runtime, and an agent that keeps alive has none while it is unloaded;   *)
(* what a command has done before its last step stays done until then.     *)
(***************************************************************************)
CommandInv ==
    /\ op \notin Installing \cup {"build"} => pc[Operator] = "idle"
    /\ keepAlive /\ ~job => pc[Agent] = "idle"
    /\ op \in {"bootout", "bootstrap", "kickstart"} => plist
    /\ op = "kickstart" => job /\ fresh
    /\ op = "unlink" => ~job
    /\ op \in {"none", "build"} =>
          /\ outcome = "installed" => plist /\ job /\ fresh
          /\ outcome = "written" => plist
          /\ outcome \in {"removed", "unlinked", "notFound"} => ~plist
          /\ outcome = "removed" => ~job

(* A step of one process on the runtime moves no other to or from idle. *)
LEMMA OthersStay ==
    ASSUME RuntimeTypeOK, NEW p \in Procs, NEW q \in Procs, q # p,
           \/ Build(p) \/ Launch(p) \/ Finish(p) \/ Crash(p) \/ Start(p) \/ StartBuild(p)
    PROVE  pc'[q] = "idle" <=> pc[q] = "idle"
<1> USE DEF RuntimeTypeOK, Goto, Gone
<1>1. CASE Build(p)
  BY <1>1 DEF Build, Ensure, Remove, RemoveTree, MakeTree, Copy, Patch, Publish, Collide
<1>2. CASE Launch(p) \/ Finish(p) \/ Crash(p)
  BY <1>2 DEF Launch, Finish, Crash
<1>3. CASE Start(p) \/ StartBuild(p)
  BY <1>3 DEF Start, StartBuild, Resolve
<1> QED
  BY <1>1, <1>2, <1>3

(* A process that is not there takes no step. *)
LEMMA IdleIsStill ==
    ASSUME NEW p \in Procs, pc[p] = "idle"
    PROVE  ~Build(p) /\ ~Launch(p) /\ ~Finish(p) /\ ~Crash(p)
BY DEF Build, Ensure, Remove, RemoveTree, MakeTree, Copy, Patch, Publish, Collide, Launch,
       Finish, Crash

LEMMA CommandStays ==
    ASSUME TypeOK, CommandInv, Step
    PROVE  CommandInv'
<1> USE AgentAssumption DEF TypeOK, CommandInv, Installing
<1>1. ASSUME NEW kind \in Installing, Install(kind)
      PROVE  CommandInv'
  BY <1>1, OthersStay DEF Install, launchdVars
<1>2. CASE PrepareRuntime
  BY <1>2, OthersStay DEF PrepareRuntime, launchdVars
<1>3. CASE WriteAgentFile
  BY <1>3 DEF WriteAgentFile, Kill
<1>4. CASE BootOut \/ Kickstart
  BY <1>4 DEF BootOut, Kickstart, KillJob, Kill, runtimeVars
<1>5. CASE Bootstrap \/ LaunchctlFails
  BY <1>5 DEF Bootstrap, LaunchctlFails, launchdVars, runtimeVars
<1>6. ASSUME NEW b \in BOOLEAN, Uninstall(b)
      PROVE  CommandInv'
  BY <1>6 DEF Uninstall, launchdVars, runtimeVars
<1>7. CASE Unlink
  BY <1>7 DEF Unlink, runtimeVars
<1>8. CASE LaunchdStart
  <2>1. pc'[Operator] = "idle" <=> pc[Operator] = "idle"
    BY <1>8, OthersStay DEF LaunchdStart, runtimeVars
  <2> QED
    BY <1>8, <2>1 DEF LaunchdStart
<1>9. CASE AgentStep
  BY <1>9, OthersStay, IdleIsStill DEF AgentStep, agentVars
<1>10. CASE Login
  BY <1>10 DEF Login, Kill
<1>11. CASE Command
  BY <1>11, OthersStay DEF Command, launchdVars
<1>12. CASE CommandStep
  BY <1>12, OthersStay DEF CommandStep, launchdVars
<1>13. CASE CommandKilled
  <2>1. pc'[Operator] = "idle" /\ op \in Installing \cup {"build"}
    BY <1>13, IdleIsStill DEF CommandKilled, Crash, Gone, Goto, RuntimeTypeOK
  <2> QED
    BY <1>13, <2>1, OthersStay DEF CommandKilled, launchdVars
<1>14. CASE Upgrade /\ UNCHANGED agentVars
  BY <1>14 DEF Upgrade, agentVars
<1> QED
  BY <1>1, <1>2, <1>3, <1>4, <1>5, <1>6, <1>7, <1>8, <1>9, <1>10, <1>11, <1>12, <1>13, <1>14
     DEF Step

LEMMA CommandInductive == Spec => [](TypeOK /\ CommandInv)
<1>1. Init => CommandInv
  BY AgentAssumption DEF Init, RuntimeInit, CommandInv, Installing
<1>2. TypeOK /\ CommandInv /\ [Next]_vars => CommandInv'
  <2>1. CommandInv /\ UNCHANGED vars => CommandInv'
    BY DEF CommandInv, vars, sysVars, runtimeVars, agentVars
  <2> QED
    BY <2>1, CommandStays DEF Next
<1> QED
  BY <1>1, <1>2, AgentTypes, PTL DEF Spec

(***************************************************************************)
(* What the last command reported is so, with logins, failed commands and  *)
(* refused bootouts in between: an installed job is loaded from its file,  *)
(* an agent that was removed has no file, and no job unless launchctl      *)
(* refused or was not asked (install_launch_agent, uninstall_launch_agent).*)
(***************************************************************************)
THEOREM ReportsHold == Spec => []ReportedIsSo
<1>1. TypeOK /\ CommandInv => ReportedIsSo
  BY DEF TypeOK, CommandInv, ReportedIsSo, Status
<1> QED
  BY <1>1, CommandInductive, PTL

-----------------------------------------------------------------------------
(***************************************************************************)
(* The runtime.  While one process rebuilds, no other is before its launch *)
(* (that is what `spoiled' records).  A process asks for the version that  *)
(* was installed when it started, which the metadata never outruns: they   *)
(* name an older version until the new copy is complete, but for a build   *)
(* by hand.  So a copy that is cut short names a version nobody asks for.  *)
(***************************************************************************)
AtWork(p) == pc[p] \notin {"idle", "running"}

Alone == \A p, q \in Procs : p # q /\ pc[p] \in Rebuilding => ~AtWork(q)

EntryCopied(p) == want[p] <= file["entry"] /\ file["entry"] <= installed

Working(p) ==
    /\ 1 <= want[p] /\ want[p] <= installed
    /\ metadata <= want[p]
    /\ pc[p] = "check" /\ metadata = want[p] =>
          file["entry"] # Missing /\ file["state"] # Upstream
    /\ pc[p] \in Rebuilding => metadata < want[p] \/ (p = Operator /\ op = "build")
    /\ pc[p] = "copy" => "entry" \in todo[p] \/ EntryCopied(p)
    /\ pc[p] \in {"patch", "publish"} => EntryCopied(p)
    /\ pc[p] = "publish" => file["state"] = want[p]
    /\ pc[p] = "ready" => file["state"] # Upstream

Complete == file["state"] = installed /\ file["entry"] = installed

Sound ==
    /\ Alone
    /\ \A p \in Procs : AtWork(p) => Working(p)
    /\ \A p \in Procs : pc[p] = "running" => loaded[p] # Upstream
    /\ (metadata = installed /\ \A p \in Procs : pc[p] \notin Rebuilding) => Complete

RuntimeInv == metadata <= installed /\ (~spoiled => Sound)

(* What is not spoiled leaves one process rebuilding at most. *)
LEMMA AloneNext ==
    ASSUME ~Spoils
    PROVE  Alone'
BY DEF Spoils, Alone, AtWork

(* Processes end, or nothing of the runtime changes. *)
LEMMA SoundEnded ==
    ASSUME TypeOK, Sound, ~Spoils,
           UNCHANGED <<installed, file, metadata, want>>,
           \A p \in Procs :
             pc'[p] = "idle" \/ (pc'[p] = pc[p] /\ todo'[p] = todo[p] /\ loaded'[p] = loaded[p]),
           op = "build" => op' = "build" \/ pc'[Operator] = "idle"
    PROVE  Sound'
<1> USE AgentAssumption
<1>1. \A p \in Procs : AtWork(p)' => Working(p)'
  <2> SUFFICES ASSUME NEW p \in Procs, AtWork(p)'
               PROVE  Working(p)'
    OBVIOUS
  <2>1. AtWork(p) /\ pc'[p] = pc[p] /\ todo'[p] = todo[p]
    BY DEF AtWork
  <2>2. Working(p)
    BY <2>1 DEF Sound
  <2> QED
    BY <2>1, <2>2 DEF Working, EntryCopied, Rebuilding, AtWork
<1>2. \A p \in Procs : pc'[p] = "running" => loaded'[p] # Upstream
  BY DEF Sound
<1>3. ASSUME metadata = installed, \A p \in Procs : pc'[p] \notin Rebuilding
      PROVE  Complete'
  <2>1. ASSUME NEW p \in Procs, pc[p] \in Rebuilding
        PROVE  FALSE
    <3>1. pc'[p] = "idle"
      BY <1>3, <2>1
    <3>2. ~(p = Operator /\ op = "build")
      BY <2>1, <3>1 DEF Spoils
    <3>3. metadata < want[p] /\ want[p] <= installed
      BY <2>1, <3>2 DEF Sound, Working, AtWork, Rebuilding
    <3> QED
      BY <1>3, <3>3 DEF TypeOK, RuntimeTypeOK
  <2> QED
    BY <1>3, <2>1 DEF Sound, Complete
<1> QED
  BY <1>1, <1>2, <1>3, AloneNext DEF Sound

(* A process starts: it asks for the installed version. *)
LEMMA SoundStarted ==
    ASSUME TypeOK, RuntimeInv, Sound, ~Spoils, NEW p \in Procs,
           Start(p) \/ (StartBuild(p) /\ p = Operator /\ op' = "build"),
           op = "build" => op' = "build"
    PROVE  Sound'
<1> USE AgentAssumption DEF Start, StartBuild, Resolve, Goto
<1>1. /\ UNCHANGED <<installed, file, metadata, todo, loaded>>
      /\ want'[p] = installed
      /\ pc'[p] = "check" \/ (pc'[p] = "remove" /\ p = Operator /\ op' = "build")
      /\ pc[p] = "idle"
      /\ \A q \in Procs : q # p => want'[q] = want[q] /\ pc'[q] = pc[q]
  BY DEF TypeOK, RuntimeTypeOK
<1>2. \A q \in Procs : pc[q] \notin Rebuilding
  BY <1>1 DEF Spoils, Rebuilding
<1>3. metadata = installed => Complete
  BY <1>2 DEF Sound
<1>4. Working(p)'
  <2>1. /\ installed \in Nat \ {0} /\ metadata <= installed
        /\ installed # Upstream /\ installed # Missing
    BY RuntimeAssumption DEF TypeOK, RuntimeTypeOK, RuntimeInv, Upstream, Missing
  <2> QED
    BY <1>1, <1>3, <2>1 DEF Working, Complete, Rebuilding
<1>5. ASSUME NEW q \in Procs, q # p, AtWork(q)'
      PROVE  Working(q)'
  <2>1. Working(q)
    BY <1>1, <1>5 DEF Sound, AtWork
  <2> QED
    BY <1>1, <1>2, <1>5, <2>1 DEF Working, EntryCopied, Rebuilding
<1>6. \A q \in Procs : pc'[q] = "running" => loaded'[q] # Upstream
  BY <1>1 DEF Sound
<1>7. metadata' = installed' => Complete'
  BY <1>1, <1>3 DEF Complete
<1> QED
  BY <1>4, <1>5, <1>6, <1>7, AloneNext DEF Sound

(* What a rebuild needs to show for its own process only. *)
LEMMA SoundRebuilding ==
    ASSUME TypeOK, Sound, ~Spoils, NEW p \in Procs, pc[p] \in Rebuilding,
           \A q \in Procs : q # p => pc'[q] = pc[q],
           UNCHANGED loaded,
           pc'[p] \in Rebuilding \cup {"ready"},
           Working(p)',
           metadata' = installed' /\ pc'[p] = "ready" => Complete'
    PROVE  Sound'
<1>1. \A q \in Procs : q # p => ~AtWork(q) /\ ~AtWork(q)'
  BY DEF Sound, Alone, AtWork
<1>2. \A q \in Procs : pc'[q] = "running" => loaded'[q] # Upstream
  BY DEF Sound, Rebuilding
<1> QED
  BY <1>1, <1>2, AloneNext DEF Sound

LEMMA SoundBuilt ==
    ASSUME TypeOK, RuntimeInv, Sound, ~Spoils, NEW p \in Procs, Build(p),
           op' = op \/ (op = "build" /\ p = Operator /\ pc'[Operator] = "idle")
              \/ op # "build"
    PROVE  Sound'
<1> USE AgentAssumption DEF Goto
<1>0. /\ pc \in [Procs -> {"idle", "check", "remove", "rmtree", "removing", "lost", "mkdir",
                           "copy", "patch", "publish", "ready", "running"}]
      /\ want \in [Procs -> Int] /\ file \in [Files -> Int] /\ installed \in Int
      /\ metadata \in Int /\ todo \in [Procs -> SUBSET Files]
      /\ "entry" \in Files /\ "state" \in Files /\ "entry" # "state"
  BY DEF TypeOK, RuntimeTypeOK, Upstream, Files
<1>1. CASE Ensure(p)
  <2>1. /\ UNCHANGED <<installed, file, metadata, want, todo, loaded>>
        /\ pc[p] = "check" /\ \A q \in Procs : q # p => pc'[q] = pc[q]
        /\ pc'[p] = IF metadata = want[p] /\ file["entry"] # Missing THEN "ready" ELSE "remove"
    BY <1>0, <1>1 DEF Ensure, MetadataMatches
  <2>2. Working(p)
    BY <2>1 DEF Sound, AtWork
  <2>3. Working(p)'
    BY <1>0, <2>1, <2>2 DEF Working, Rebuilding
  <2>4. ASSUME NEW q \in Procs, q # p, AtWork(q)'
        PROVE  Working(q)'
    <3>1. pc[q] \notin Rebuilding
      BY <2>1, <2>4 DEF Sound, Alone, AtWork
    <3> QED
      BY <2>1, <2>4, <3>1 DEF Sound, Working, EntryCopied, AtWork, Rebuilding
  <2>5. \A q \in Procs : pc'[q] = "running" => loaded'[q] # Upstream
    BY <2>1 DEF Sound
  <2>6. (metadata' = installed' /\ \A q \in Procs : pc'[q] \notin Rebuilding) => Complete'
    <3>1. \A q \in Procs : pc[q] \notin Rebuilding
      BY <2>1 DEF Sound, Alone, AtWork, Rebuilding
    <3> QED
      BY <2>1, <3>1 DEF Sound, Complete
  <2> QED
    BY <2>3, <2>4, <2>5, <2>6, AloneNext DEF Sound
<1>2. CASE Remove(p) \/ MakeTree(p)
  <2>1. Working(p) /\ pc[p] \in Rebuilding
    BY <1>2 DEF Sound, AtWork, Remove, MakeTree, Rebuilding
  <2>2. /\ UNCHANGED <<installed, metadata, want, loaded>>
        /\ \A q \in Procs : q # p => pc'[q] = pc[q]
        /\ pc'[p] \in {"rmtree", "mkdir", "copy"}
        /\ pc'[p] = "copy" => "entry" \in todo'[p]
    BY <1>0, <1>2 DEF Remove, MakeTree
  <2>3. Working(p)'
    BY <2>1, <2>2 DEF Working, Rebuilding
  <2> QED
    BY <2>1, <2>2, <2>3, SoundRebuilding DEF Rebuilding
<1>3. CASE RemoveTree(p)
  <2>1. Working(p) /\ pc[p] \in Rebuilding
    BY <1>3 DEF Sound, AtWork, RemoveTree, Rebuilding
  <2>2. \A q \in Procs : q # p => pc[q] # "removing"
    BY <2>1 DEF Sound, Alone, AtWork
  <2>3. /\ UNCHANGED <<installed, metadata, want, loaded>>
        /\ \A q \in Procs : q # p => pc'[q] = pc[q]
        /\ pc'[p] \in {"removing", "mkdir"}
    BY <1>0, <1>3, <2>2 DEF RemoveTree
  <2>4. Working(p)'
    BY <2>1, <2>3 DEF Working, Rebuilding
  <2> QED
    BY <2>1, <2>3, <2>4, SoundRebuilding DEF Rebuilding
<1>4. CASE Copy(p)
  <2>1. Working(p) /\ pc[p] = "copy" /\ pc[p] \in Rebuilding
    BY <1>4 DEF Sound, AtWork, Copy, Rebuilding
  <2>2. /\ UNCHANGED <<installed, metadata, want, loaded>>
        /\ \A q \in Procs : q # p => pc'[q] = pc[q]
        /\ pc'[p] \in {"copy", "patch"}
    BY <1>0, <1>4 DEF Copy
  <2>3. (pc'[p] = "copy" /\ "entry" \in todo'[p]) \/ EntryCopied(p)'
    <3>1. PICK f \in todo[p] :
             /\ file' = [file EXCEPT ![f] = IF f = "entry" THEN installed ELSE Upstream]
             /\ todo' = [todo EXCEPT ![p] = @ \ {f}]
             /\ Goto(p, IF todo[p] = {f} THEN "patch" ELSE "copy")
      BY <1>4 DEF Copy
    <3>2. f \in Files /\ todo'[p] = todo[p] \ {f}
      BY <1>0, <3>1
    <3>3. CASE f = "entry"
      BY <1>0, <2>1, <2>2, <3>1, <3>3 DEF Working, EntryCopied
    <3>4. CASE f # "entry"
      <4>1. file'["entry"] = file["entry"]
        BY <1>0, <3>1, <3>4
      <4>2. CASE "entry" \in todo[p]
        BY <1>0, <3>1, <3>2, <3>4, <4>2
      <4>3. CASE EntryCopied(p)
        BY <2>2, <4>1, <4>3 DEF EntryCopied
      <4> QED
        BY <2>1, <4>2, <4>3 DEF Working
    <3> QED
      BY <3>3, <3>4
  <2>4. Working(p)'
    BY <2>1, <2>2, <2>3 DEF Working, Rebuilding
  <2> QED
    BY <2>1, <2>2, <2>4, SoundRebuilding DEF Rebuilding
<1>5. CASE Patch(p)
  <2>1. Working(p) /\ pc[p] = "patch" /\ pc[p] \in Rebuilding
    BY <1>5 DEF Sound, AtWork, Patch, Rebuilding
  <2>2. /\ UNCHANGED <<installed, metadata, want, loaded>>
        /\ \A q \in Procs : q # p => pc'[q] = pc[q]
        /\ pc'[p] = "publish"
        /\ file'["state"] = want[p] /\ file'["entry"] = file["entry"]
    BY <1>0, <1>5 DEF Patch
  <2>3. Working(p)'
    BY <2>1, <2>2 DEF Working, EntryCopied, Rebuilding
  <2> QED
    BY <2>1, <2>2, <2>3, SoundRebuilding DEF Rebuilding
<1>6. CASE Publish(p)
  <2>1. Working(p) /\ pc[p] = "publish" /\ pc[p] \in Rebuilding
    BY <1>6 DEF Sound, AtWork, Publish, Rebuilding
  <2>2. /\ UNCHANGED <<installed, file, want, loaded>>
        /\ \A q \in Procs : q # p => pc'[q] = pc[q]
        /\ pc'[p] = "ready" /\ metadata' = want[p]
    BY <1>0, <1>6 DEF Publish
  <2>3. /\ 1 <= want[p] /\ want[p] <= installed /\ file["state"] = want[p]
        /\ EntryCopied(p)
    BY <2>1 DEF Working
  <2>4. Working(p)'
    BY <1>0, <2>2, <2>3 DEF Working, EntryCopied, Rebuilding, Upstream
  <2>5. metadata' = installed' => Complete'
    BY <1>0, <2>2, <2>3 DEF Complete, EntryCopied
  <2> QED
    BY <2>1, <2>2, <2>4, <2>5, SoundRebuilding
<1>7. CASE Collide(p)
  <2>1. /\ UNCHANGED <<installed, file, metadata, want>> /\ pc'[p] = "idle"
        /\ \A q \in Procs :
             q # p => pc'[q] = pc[q] /\ todo'[q] = todo[q] /\ loaded'[q] = loaded[q]
    BY <1>7 DEF Collide, Gone, TypeOK, RuntimeTypeOK
  <2> QED
    BY <2>1, SoundEnded
<1> QED
  BY <1>1, <1>2, <1>3, <1>4, <1>5, <1>6, <1>7 DEF Build

(* The metadata are written from what was installed. *)
LEMMA MetadataBehind ==
    ASSUME TypeOK, CommandInv, metadata <= installed,
           \A p \in Procs : want[p] <= installed, Step
    PROVE  metadata' <= installed' /\ \A p \in Procs : want'[p] <= installed'
<1> USE AgentAssumption DEF Goto, Gone
<1>0. /\ want \in [Procs -> Int] /\ installed \in Int /\ metadata \in Int
  BY DEF TypeOK, RuntimeTypeOK
<1>1. ASSUME NEW p \in Procs, Build(p)
      PROVE  UNCHANGED <<installed, want>> /\ metadata' \in {metadata, want[p]}
  BY <1>1 DEF Build, Ensure, Remove, RemoveTree, MakeTree, Copy, Patch, Publish, Collide
<1>2. ASSUME NEW p \in Procs, Launch(p) \/ Finish(p) \/ Crash(p)
      PROVE  UNCHANGED <<installed, want, metadata>>
  BY <1>2 DEF Launch, Finish, Crash
<1>3. ASSUME NEW p \in Procs, Start(p) \/ StartBuild(p)
      PROVE  UNCHANGED <<installed, metadata>> /\ want' = [want EXCEPT ![p] = installed]
  BY <1>3 DEF Start, StartBuild, Resolve
<1>4. CASE PrepareRuntime \/ AgentStep \/ CommandStep \/ CommandKilled
  BY <1>1, <1>2, <1>4 DEF PrepareRuntime, AgentStep, CommandStep, CommandKilled
<1>5. CASE LaunchdStart \/ Command \/ \E kind \in Installing : Install(kind)
  BY <1>0, <1>3, <1>5 DEF LaunchdStart, Command, Install, runtimeVars
<1>6. CASE WriteAgentFile \/ BootOut \/ Bootstrap \/ Kickstart \/ LaunchctlFails \/ Unlink
             \/ Login \/ \E b \in BOOLEAN : Uninstall(b)
  BY <1>6 DEF WriteAgentFile, BootOut, Bootstrap, Kickstart, LaunchctlFails, Unlink, Login,
              Uninstall, KillJob, Kill, runtimeVars
<1>7. CASE Upgrade /\ UNCHANGED agentVars
  BY <1>0, <1>7 DEF Upgrade
<1> QED
  BY <1>4, <1>5, <1>6, <1>7 DEF Step

LEMMA SoundStep ==
    ASSUME TypeOK, CommandInv, RuntimeInv, Sound, Step, ~Spoils
    PROVE  Sound'
<1> USE AgentAssumption DEF Installing
<1>1. ASSUME NEW kind \in Installing, Install(kind)
      PROVE  Sound'
  BY <1>1, SoundStarted DEF Install
<1>2. CASE PrepareRuntime
  BY <1>2, SoundBuilt DEF PrepareRuntime
<1>3. ASSUME NEW S, Kill(S),
             op = "build" => op' = "build" \/ pc'[Operator] = "idle"
      PROVE  Sound'
  <2>1. \A p \in Procs :
          pc'[p] = "idle" \/ (pc'[p] = pc[p] /\ todo'[p] = todo[p] /\ loaded'[p] = loaded[p])
    BY <1>3 DEF Kill
  <2> QED
    BY <1>3, <2>1, SoundEnded DEF Kill
<1>5. CASE Login
  BY <1>3, <1>5 DEF Login, Kill
<1>6. ASSUME UNCHANGED runtimeVars, op # "build"
      PROVE  Sound'
  BY <1>6, SoundEnded DEF runtimeVars
<1>4. CASE WriteAgentFile \/ BootOut \/ Kickstart
  BY <1>3, <1>4, <1>6 DEF WriteAgentFile, BootOut, Kickstart, KillJob
<1>7. CASE Bootstrap \/ LaunchctlFails \/ Unlink \/ \E b \in BOOLEAN : Uninstall(b)
  BY <1>6, <1>7 DEF Bootstrap, LaunchctlFails, Unlink, Uninstall
<1>8. CASE LaunchdStart
  <2>1. UNCHANGED op
    BY <1>8 DEF LaunchdStart
  <2>2. CASE Start(Agent)
    BY <2>1, <2>2, SoundStarted
  <2>3. CASE UNCHANGED runtimeVars
    BY <2>1, <2>3, SoundEnded DEF runtimeVars
  <2> QED
    BY <1>8, <2>2, <2>3 DEF LaunchdStart
<1>9. ASSUME NEW p \in Procs, Finish(p) \/ Crash(p),
             op = "build" => op' = "build" \/ pc'[Operator] = "idle"
      PROVE  Sound'
  <2>1. /\ UNCHANGED <<installed, file, metadata, want>>
        /\ \A q \in Procs :
             pc'[q] = "idle" \/ (pc'[q] = pc[q] /\ todo'[q] = todo[q] /\ loaded'[q] = loaded[q])
    BY <1>9 DEF Finish, Crash, Gone, Goto, TypeOK, RuntimeTypeOK
  <2> QED
    BY <1>9, <2>1, SoundEnded
<1>10. CASE Launch(Agent) /\ UNCHANGED op
  <2>1. CASE Gone(Agent)
    <3>1. /\ UNCHANGED <<installed, file, metadata, want>>
          /\ \A q \in Procs :
               pc'[q] = "idle"
                 \/ (pc'[q] = pc[q] /\ todo'[q] = todo[q] /\ loaded'[q] = loaded[q])
      BY <1>10, <2>1 DEF Launch, Gone, Goto, TypeOK, RuntimeTypeOK
    <3> QED
      BY <1>10, <3>1, SoundEnded
  <2>2. CASE loaded' = [loaded EXCEPT ![Agent] = file["state"]] /\ Goto(Agent, "running")
               /\ UNCHANGED todo
    <3>1. /\ UNCHANGED <<installed, file, metadata, want, todo, op>>
          /\ pc[Agent] = "ready" /\ pc'[Agent] = "running" /\ loaded'[Agent] = file["state"]
          /\ \A q \in Procs : q # Agent => pc'[q] = pc[q] /\ loaded'[q] = loaded[q]
      BY <1>10, <2>2 DEF Launch, Goto, TypeOK, RuntimeTypeOK
    <3>2. Working(Agent)
      BY <3>1 DEF Sound, AtWork
    <3>3. \A q \in Procs : AtWork(q)' => Working(q)'
      BY <3>1 DEF Sound, Working, EntryCopied, AtWork, Rebuilding
    <3>4. \A q \in Procs : pc'[q] = "running" => loaded'[q] # Upstream
      BY <3>1, <3>2 DEF Sound, Working
    <3>5. (metadata' = installed' /\ \A q \in Procs : pc'[q] \notin Rebuilding) => Complete'
      BY <3>1 DEF Sound, Complete, Rebuilding
    <3> QED
      BY <3>3, <3>4, <3>5, AloneNext DEF Sound
  <2> QED
    BY <1>10, <2>1, <2>2 DEF Launch
<1>11. CASE AgentStep
  BY <1>9, <1>10, <1>11, SoundBuilt DEF AgentStep, agentVars
<1>12. CASE Command
  BY <1>12, SoundStarted DEF Command
<1>13. CASE CommandStep
  <2>1. op' = op \/ (op = "build" /\ pc'[Operator] = "idle")
    BY <1>13 DEF CommandStep
  <2>2. CASE Build(Operator)
    BY <2>1, <2>2, SoundBuilt
  <2>3. CASE Finish(Operator)
    BY <1>9, <2>1, <2>3
  <2> QED
    BY <1>13, <2>2, <2>3 DEF CommandStep
<1>14. CASE CommandKilled
  <2>1. pc'[Operator] = "idle"
    BY <1>14 DEF CommandKilled, Crash, Gone, Goto, TypeOK, RuntimeTypeOK
  <2> QED
    BY <1>9, <1>14, <2>1 DEF CommandKilled
<1>15. CASE Upgrade /\ UNCHANGED agentVars
  <2>1. /\ installed' = installed + 1 /\ installed \in Int /\ metadata \in Int
        /\ want \in [Procs -> Int] /\ file \in [Files -> Int] /\ "entry" \in Files
        /\ UNCHANGED <<file, metadata, pc, want, todo, loaded, op>>
    BY <1>15 DEF Upgrade, agentVars, TypeOK, RuntimeTypeOK, Upstream, Files
  <2>2. \A p \in Procs : AtWork(p)' => Working(p)'
    <3> SUFFICES ASSUME NEW p \in Procs, AtWork(p)
                 PROVE  Working(p)'
      BY <2>1 DEF AtWork
    <3>1. Working(p)
      BY DEF Sound
    <3>2. want[p] \in Int /\ file["entry"] \in Int
      BY <2>1
    <3>3. want'[p] <= installed' /\ (EntryCopied(p) => EntryCopied(p)')
      BY <2>1, <3>1, <3>2 DEF Working, EntryCopied
    <3> QED
      BY <2>1, <3>1, <3>3 DEF Working, Rebuilding
  <2>3. metadata' # installed'
    BY <2>1 DEF RuntimeInv
  <2> QED
    BY <2>1, <2>2, <2>3, AloneNext DEF Sound
<1> QED
  BY <1>1, <1>2, <1>4, <1>5, <1>7, <1>8, <1>11, <1>12, <1>13, <1>14, <1>15 DEF Step

WantBehind == \A p \in Procs : want[p] <= installed

LEMMA RuntimeInductive == Spec => []RuntimeInv
<1>1. Init => RuntimeInv /\ WantBehind
  <2> SUFFICES ASSUME Init PROVE RuntimeInv /\ WantBehind
    OBVIOUS
  <2>1. /\ installed = 1 /\ metadata = 0 /\ \A p \in Procs : pc[p] = "idle" /\ want[p] = 0
    BY DEF Init, RuntimeInit, Missing
  <2> QED
    BY <2>1 DEF RuntimeInv, WantBehind, Sound, Alone, AtWork, Rebuilding
<1>2. TypeOK /\ CommandInv /\ RuntimeInv /\ WantBehind /\ [Next]_vars
        => RuntimeInv' /\ WantBehind'
  <2> SUFFICES ASSUME TypeOK, CommandInv, RuntimeInv, WantBehind, [Next]_vars
               PROVE  RuntimeInv' /\ WantBehind'
    OBVIOUS
  <2>1. CASE UNCHANGED vars
    <3>1. UNCHANGED <<installed, file, metadata, want, todo, loaded, pc, op, spoiled>>
      BY <2>1 DEF vars, sysVars, runtimeVars, agentVars
    <3> QED
      BY <3>1 DEF RuntimeInv, WantBehind, Sound, Alone, AtWork, Working, EntryCopied, Complete,
                  Rebuilding
  <2>2. CASE Next
    <3>1. metadata' <= installed' /\ WantBehind'
      BY <2>2, MetadataBehind DEF Next, RuntimeInv, WantBehind
    <3>2. ~spoiled' => Sound'
      BY <2>2, SoundStep DEF Next, RuntimeInv
    <3> QED
      BY <3>1, <3>2 DEF RuntimeInv
  <2> QED
    BY <2>1, <2>2
<1> QED
  BY <1>1, <1>2, CommandInductive, PTL DEF Spec

(***************************************************************************)
(* No node process ever runs on the package's own device-state file,       *)
(* wherever rebuilds were cut short, unless two processes worked on the    *)
(* runtime at once or a build by hand was cut short.                       *)
(***************************************************************************)
THEOREM RunsPatched == Spec => []LaunchedIsPatched
<1>1. RuntimeInv => LaunchedIsPatched
  BY DEF RuntimeInv, Sound, LaunchedIsPatched
<1> QED
  BY <1>1, RuntimeInductive, PTL

(***************************************************************************)
(* A runtime the next command would accept, while no process is at work on *)
(* it, is the patched copy of the version it names, under the same         *)
(* conditions.                                                             *)
(***************************************************************************)
THEOREM AcceptsComplete == Spec => []AcceptedIsComplete
<1>1. RuntimeInv => AcceptedIsComplete
  BY DEF RuntimeInv, Sound, AcceptedIsComplete, MetadataMatches, Complete
<1> QED
  BY <1>1, RuntimeInductive, PTL

=============================================================================
