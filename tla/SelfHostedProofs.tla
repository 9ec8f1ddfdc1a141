-------------------------- MODULE SelfHostedProofs --------------------------
(***************************************************************************)
(* Proofs about the self-hosted wrapper, for any number of runs and any    *)
(* number of interrupts, kills, failures and deaths of children: what a    *)
(* run that is over leaves behind, and what the state file says of it,     *)
(* however the writes of the runs cross in its temporary file.             *)
(***************************************************************************)
EXTENDS SelfHosted, TLAPS

(* Before its first state is written, and if that fails, a run has no      *)
(* child.                                                                  *)
Early(r) ==
    \/ pc[r] \in {"idle", "spawnRelay", "aborted"}
    \/ pc[r] \in {"write", "replace"} /\ status[r] = "starting"

(* Which children of a run may be there without its finally clause knowing *)
(* of them: a tunnel while its URL is waited for, or that was told to end  *)
(* then, and the bridge while it is in the foreground.                     *)
ChildrenKnown(r) ==
    /\ child[r]["relay"] \in Living => "relay" \in held[r]
    /\ child[r]["tunnel"] \in Living =>
          "tunnel" \in held[r] \/ At(r, "url") \/ child[r]["tunnel"] = "told"
    /\ child[r]["bridge"] \in Living => pc[r] \in {"foreground", "stopBridge"}
    /\ pc[r] \in {"stopRelay", "over"} /\ "tunnel" \in held[r] =>
          child[r]["tunnel"] \notin Living
    /\ At(r, "over") => child[r]["relay"] \notin Living

ChildInv ==
    \A r \in Runs :
        /\ child[r]["tunnel"] # "starting"
        /\ Early(r) => held[r] = {} /\ \A k \in Kids : child[r][k] \notin Living
        /\ ~At(r, "killed") /\ r \notin dropped => ChildrenKnown(r)

(* Runs of which nothing is said: what they wrote may be renamed later.    *)
Excused(r) == r \in signalled \cup unwritten \/ pc[r] \in {"killed", "aborted"}

(* What a run wrote into the temporary file is there only until it renames *)
(* it or writes again.  If another run has renamed the run's last word, it *)
(* is in place, unless that other run wrote over it first.                 *)
FileInvOf(r) ==
    /\ pc[r] \in {"write", "replace"} => status[r] # "none"
    /\ ~Excused(r) =>
          /\ tmp.run = r => At(r, "write") \/ (At(r, "replace") /\ tmp.status = status[r])
          /\ (At(r, "replace") /\ status[r] \in LastWords /\ tmp = Nothing /\ state.run = r)
                => state.status \in LastWords
          /\ (pc[r] \in {"stopTunnel", "stopRelay", "over"} /\ state.run = r)
                => state.status \in LastWords

FileInv == \A r \in Runs : FileInvOf(r)

HostInv == TypeOK /\ ChildInv /\ FileInv

Step(r) ==
    \/ Begin(r) \/ Saving(r) \/ Startup(r) \/ UrlWait(r) \/ Ending(r) \/ RelayBinds(r)
    \/ Interrupt(r) \/ Killed(r)
    \/ \E k \in Kids : ChildEnds(r, k)

-----------------------------------------------------------------------------
FileTypes ==
    /\ pc \in [Runs -> Places] /\ status \in [Runs -> Statuses]
    /\ tmp \in [run : Runs \cup {NoRun}, status : Statuses] \cup {Nothing}
    /\ state \in [run : Runs \cup {NoRun}, status : Statuses]
    /\ unwritten \subseteq Runs

ChildTypes ==
    /\ child \in [Runs -> [Kids -> {"none", "down"} \cup Living]]
    /\ held \in [Runs -> SUBSET Kids]
    /\ port \in Runs \cup {NoRun}

OtherTypes ==
    signalled \subseteq Runs /\ dropped \subseteq Runs /\ mishaps \in 0 .. MaxMishaps

LEMMA TypeParts == TypeOK' <=> FileTypes' /\ ChildTypes' /\ OtherTypes'
BY DEF TypeOK, FileTypes, ChildTypes, OtherTypes

LEMMA WritesTypes ==
    ASSUME TypeOK, NEW r \in Runs, NEW s \in Statuses, Writes(r, s)
    PROVE  FileTypes'
BY DEF TypeOK, FileTypes, Writes, Goto, Places

LEMMA TypesStep ==
    ASSUME TypeOK, NEW r \in Runs, Step(r)
    PROVE  TypeOK'
<1> USE SelfHostedAssumption
    DEF TypeOK, At, Goto, Becomes, Writes, Raise, Mishap, Kids, Alive, Living, Ended, LastWords,
        Places, Statuses, Nothing, Blank, fileVars, others
<1>1. CASE Begin(r)
  BY <1>1 DEF Begin
<1>2. CASE Saving(r)
  <2>1. CASE WriteTemporary(r)
    <3>1. FileTypes'
      BY <2>1 DEF FileTypes, WriteTemporary, DiskFails, WriteFails
    <3>2. ChildTypes' /\ OtherTypes'
      BY <2>1 DEF ChildTypes, OtherTypes, WriteTemporary, DiskFails
    <3> QED
      BY <3>1, <3>2, TypeParts
  <2>2. CASE Replace(r)
    BY <2>2 DEF Replace, DiskFails, WriteFails, AfterWrite
  <2> QED
    BY <1>2, <2>1, <2>2 DEF Saving
<1>3. CASE Startup(r)
  <2>1. CASE SpawnRelay(r)
    <3>1. FileTypes'
      BY <2>1, WritesTypes DEF FileTypes, SpawnRelay
    <3>2. ChildTypes'
      BY <2>1 DEF ChildTypes, SpawnRelay
    <3>3. OtherTypes'
      BY <2>1 DEF OtherTypes, SpawnRelay
    <3> QED
      BY <3>1, <3>2, <3>3, TypeParts
  <2>2. CASE RelayHealthy(r)
    BY <2>2 DEF RelayHealthy
  <2>3. CASE RelayUnhealthy(r)
    BY <2>3 DEF RelayUnhealthy
  <2>4. CASE SpawnTunnel(r)
    <3>1. FileTypes'
      <4>1. CASE Goto(r, "url") /\ UNCHANGED fileVars
        BY <2>4, <4>1 DEF FileTypes
      <4>2. CASE Raise(r)
        BY <2>4, <4>2, WritesTypes DEF FileTypes
      <4> QED
        BY <2>4, <4>1, <4>2 DEF SpawnTunnel
    <3>2. ChildTypes'
      BY <2>4 DEF ChildTypes, SpawnTunnel
    <3>3. OtherTypes'
      BY <2>4 DEF OtherTypes, SpawnTunnel
    <3> QED
      BY <3>1, <3>2, <3>3, TypeParts
  <2>5. CASE ReapTunnel(r)
    BY <2>5 DEF ReapTunnel
  <2>6. CASE ResolveHostname(r)
    <3>1. FileTypes'
      BY <2>6, WritesTypes DEF FileTypes, ResolveHostname
    <3>2. ChildTypes'
      BY <2>6 DEF ChildTypes, ResolveHostname
    <3>3. OtherTypes'
      BY <2>6 DEF OtherTypes, ResolveHostname
    <3> QED
      BY <3>1, <3>2, <3>3, TypeParts
  <2>7. CASE Announce(r)
    <3>1. FileTypes'
      BY <2>7, WritesTypes DEF FileTypes, Announce
    <3>2. ChildTypes'
      BY <2>7 DEF ChildTypes, Announce
    <3>3. OtherTypes'
      BY <2>7 DEF OtherTypes, Announce
    <3> QED
      BY <3>1, <3>2, <3>3, TypeParts
  <2>8. CASE Launch(r)
    <3>1. FileTypes'
      <4>1. CASE Goto(r, "foreground") /\ UNCHANGED fileVars
        BY <2>8, <4>1 DEF FileTypes
      <4>2. CASE Raise(r)
        BY <2>8, <4>2, WritesTypes DEF FileTypes
      <4> QED
        BY <2>8, <4>1, <4>2 DEF Launch
    <3>2. ChildTypes'
      BY <2>8 DEF ChildTypes, Launch
    <3>3. OtherTypes'
      BY <2>8 DEF OtherTypes, Launch
    <3> QED
      BY <3>1, <3>2, <3>3, TypeParts
  <2> QED
    BY <1>3, <2>1, <2>2, <2>3, <2>4, <2>5, <2>6, <2>7, <2>8 DEF Startup
<1>4. CASE UrlWait(r)
  <2>1. CASE TunnelUrl(r)
    BY <2>1 DEF TunnelUrl
  <2>2. CASE NoTunnelUrl(r)
    BY <2>2 DEF NoTunnelUrl
  <2>3. CASE TunnelLineFails(r)
    BY <2>3 DEF TunnelLineFails
  <2> QED
    BY <1>4, <2>1, <2>2, <2>3 DEF UrlWait
<1>5. CASE Ending(r)
  <2>1. CASE ForegroundEnds(r)
    <3>1. FileTypes'
      BY <2>1, WritesTypes DEF FileTypes, ForegroundEnds
    <3>2. ChildTypes'
      BY <2>1 DEF ChildTypes, ForegroundEnds
    <3>3. OtherTypes'
      BY <2>1 DEF OtherTypes, ForegroundEnds
    <3> QED
      BY <3>1, <3>2, <3>3, TypeParts
  <2>2. CASE StopBridge(r)
    BY <2>2 DEF StopBridge
  <2>3. CASE StopTunnel(r)
    <3>1. FileTypes'
      BY <2>3 DEF FileTypes, StopTunnel
    <3>2. ChildTypes'
      BY <2>3 DEF ChildTypes, StopTunnel, Terminate, Freed
    <3>3. OtherTypes'
      BY <2>3 DEF OtherTypes, StopTunnel
    <3> QED
      BY <3>1, <3>2, <3>3, TypeParts
  <2>4. CASE StopRelay(r)
    <3>1. FileTypes'
      BY <2>4 DEF FileTypes, StopRelay
    <3>2. ChildTypes'
      BY <2>4 DEF ChildTypes, StopRelay, Terminate, Freed
    <3>3. OtherTypes'
      BY <2>4 DEF OtherTypes, StopRelay
    <3> QED
      BY <3>1, <3>2, <3>3, TypeParts
  <2> QED
    BY <1>5, <2>1, <2>2, <2>3, <2>4 DEF Ending
<1>6. CASE RelayBinds(r)
  BY <1>6 DEF RelayBinds
<1>7. CASE Interrupt(r)
  BY <1>7 DEF Interrupt, AfterInterrupt
<1>8. CASE Killed(r)
  BY <1>8 DEF Killed
<1>9. ASSUME NEW k \in Kids, ChildEnds(r, k)
      PROVE  TypeOK'
  BY <1>9 DEF ChildEnds, Freed
<1> QED
  BY <1>1, <1>2, <1>3, <1>4, <1>5, <1>6, <1>7, <1>8, <1>9 DEF Step

(* A step of one run keeps its children known, and leaves those of every   *)
(* other run alone.                                                        *)
LEMMA ChildStep ==
    ASSUME TypeOK, ChildInv, NEW r \in Runs, Step(r)
    PROVE  ChildInv'
<1> USE DEF TypeOK, ChildInv, ChildrenKnown, Early, At, Goto, Becomes, Writes, Raise,
           Kids, Alive, Living, fileVars, others
<1>1. CASE Begin(r)
  BY <1>1 DEF Begin
<1>2. CASE Saving(r)
  <2>1. CASE WriteTemporary(r)
    BY <2>1 DEF WriteTemporary, DiskFails, WriteFails
  <2>2. CASE Replace(r)
    BY <2>2 DEF Replace, DiskFails, WriteFails, AfterWrite
  <2> QED
    BY <1>2, <2>1, <2>2 DEF Saving
<1>3. CASE Startup(r)
  <2>1. CASE SpawnRelay(r)
    BY <2>1 DEF SpawnRelay
  <2>2. CASE RelayHealthy(r)
    BY <2>2 DEF RelayHealthy
  <2>3. CASE RelayUnhealthy(r)
    BY <2>3 DEF RelayUnhealthy
  <2>4. CASE SpawnTunnel(r)
    BY <2>4 DEF SpawnTunnel
  <2>5. CASE ReapTunnel(r)
    BY <2>5 DEF ReapTunnel
  <2>6. CASE ResolveHostname(r)
    BY <2>6 DEF ResolveHostname
  <2>7. CASE Announce(r)
    BY <2>7 DEF Announce
  <2>8. CASE Launch(r)
    BY <2>8 DEF Launch
  <2> QED
    BY <1>3, <2>1, <2>2, <2>3, <2>4, <2>5, <2>6, <2>7, <2>8 DEF Startup
<1>4. CASE UrlWait(r)
  <2>1. CASE TunnelUrl(r)
    BY <2>1 DEF TunnelUrl
  <2>2. CASE NoTunnelUrl(r)
    <3>1. /\ child'[r]["tunnel"] \in {"told", child[r]["tunnel"]}
          /\ child[r]["tunnel"] = "up" => child'[r]["tunnel"] = "told"
          /\ \A k \in Kids \ {"tunnel"} : child'[r][k] = child[r][k]
          /\ \A q \in Runs \ {r} : child'[q] = child[q]
      BY <2>2 DEF NoTunnelUrl
    <3>2. /\ pc' = [pc EXCEPT ![r] = "reap"] /\ pc[r] = "url"
          /\ UNCHANGED <<held, status, dropped>>
      BY <2>2 DEF NoTunnelUrl
    <3> QED
      BY <3>1, <3>2
  <2>3. CASE TunnelLineFails(r)
    BY <2>3 DEF TunnelLineFails
  <2> QED
    BY <1>4, <2>1, <2>2, <2>3 DEF UrlWait
<1>5. CASE Ending(r)
  <2>1. CASE ForegroundEnds(r)
    BY <2>1 DEF ForegroundEnds
  <2>2. CASE StopBridge(r)
    BY <2>2 DEF StopBridge
  <2>3. CASE StopTunnel(r)
    BY <2>3 DEF StopTunnel, Terminate, Freed
  <2>4. CASE StopRelay(r)
    BY <2>4 DEF StopRelay, Terminate, Freed
  <2> QED
    BY <1>5, <2>1, <2>2, <2>3, <2>4 DEF Ending
<1>6. CASE RelayBinds(r)
  BY <1>6 DEF RelayBinds
<1>7. CASE Interrupt(r)
  <2>1. PICK new \in SUBSET BeingStarted(r) :
          /\ child' = [child EXCEPT ![r] =
                [k \in Kids |-> IF k \in new THEN (IF k = "relay" THEN "starting" ELSE "up")
                                ELSE IF child[r][k] \in Alive THEN "told" ELSE child[r][k]]]
          /\ dropped' = IF new # {} \/ pc[r] \in {"stopBridge", "stopTunnel", "stopRelay"}
                        THEN dropped \cup {r} ELSE dropped
    BY <1>7 DEF Interrupt
  <2>2. /\ pc' = [pc EXCEPT ![r] = AfterInterrupt(r)]
        /\ UNCHANGED <<held, status>>
    BY <1>7 DEF Interrupt
  <2>3. \A q \in Runs \ {r} : child'[q] = child[q] /\ pc'[q] = pc[q]
    BY <2>1, <2>2
  <2>4. dropped \subseteq dropped'
    BY <2>1
  <2>5. CASE r \in dropped'
    <3>1. ASSUME Early(r)'
          PROVE  held'[r] = {} /\ \A k \in Kids : child'[r][k] \notin Living
      <4>1. Early(r) /\ pc[r] \in {"write", "replace"}
        BY <2>2, <3>1 DEF AfterInterrupt
      <4>2. \A k \in Kids : k \notin new
        BY <4>1 DEF BeingStarted
      <4> QED
        BY <2>1, <2>2, <4>1, <4>2
    <3>2. child'[r]["tunnel"] # "starting"
      BY <2>1
    <3> QED
      BY <2>2, <2>3, <2>4, <2>5, <3>1, <3>2
  <2>6. CASE r \notin dropped'
    <3>1. pc[r] \notin {"stopBridge", "stopTunnel", "stopRelay", "idle", "killed", "over",
         "aborted"}
      BY <1>7, <2>1, <2>6 DEF Interrupt, Ended
    <3>2. \A k \in Kids : child'[r][k] = IF child[r][k] \in Alive THEN "told" ELSE child[r][k]
      BY <2>1, <2>6
    <3> QED
      BY <2>2, <2>3, <2>4, <3>1, <3>2 DEF AfterInterrupt
  <2> QED
    BY <2>5, <2>6
<1>8. CASE Killed(r)
  BY <1>8 DEF Killed
<1>9. ASSUME NEW k \in Kids, ChildEnds(r, k)
      PROVE  ChildInv'
  BY <1>9 DEF ChildEnds, Freed
<1> QED
  BY <1>1, <1>2, <1>3, <1>4, <1>5, <1>6, <1>7, <1>8, <1>9 DEF Step

(* A step of one run keeps what the files say true, of itself and of the   *)
(* run whose words it renames.                                             *)
LEMMA FileStep ==
    ASSUME TypeOK, FileInv, NEW r \in Runs, Step(r)
    PROVE  FileInv'
<1> USE SelfHostedAssumption
    DEF TypeOK, FileInv, FileInvOf, Excused, At, Goto, Becomes, Writes, Raise, LastWords,
        Nothing, Blank, Statuses, fileVars, others
<1>1. CASE Begin(r)
  BY <1>1 DEF Begin
<1>2. CASE Saving(r)
  <2>1. CASE WriteTemporary(r)
    BY <2>1 DEF WriteTemporary, DiskFails, WriteFails
  <2>2. CASE Replace(r)
    BY <2>2 DEF Replace, DiskFails, WriteFails, AfterWrite
  <2> QED
    BY <1>2, <2>1, <2>2 DEF Saving
<1>3. CASE Startup(r)
  <2>1. CASE SpawnRelay(r)
    BY <2>1 DEF SpawnRelay
  <2>2. CASE RelayHealthy(r)
    BY <2>2 DEF RelayHealthy
  <2>3. CASE RelayUnhealthy(r)
    BY <2>3 DEF RelayUnhealthy
  <2>4. CASE SpawnTunnel(r)
    BY <2>4 DEF SpawnTunnel
  <2>5. CASE ReapTunnel(r)
    BY <2>5 DEF ReapTunnel
  <2>6. CASE ResolveHostname(r)
    BY <2>6 DEF ResolveHostname
  <2>7. CASE Announce(r)
    BY <2>7 DEF Announce
  <2>8. CASE Launch(r)
    BY <2>8 DEF Launch
  <2> QED
    BY <1>3, <2>1, <2>2, <2>3, <2>4, <2>5, <2>6, <2>7, <2>8 DEF Startup
<1>4. CASE UrlWait(r)
  <2>1. CASE TunnelUrl(r)
    BY <2>1 DEF TunnelUrl
  <2>2. CASE NoTunnelUrl(r)
    BY <2>2 DEF NoTunnelUrl
  <2>3. CASE TunnelLineFails(r)
    BY <2>3 DEF TunnelLineFails
  <2> QED
    BY <1>4, <2>1, <2>2, <2>3 DEF UrlWait
<1>5. CASE Ending(r)
  <2>1. CASE ForegroundEnds(r)
    BY <2>1 DEF ForegroundEnds
  <2>2. CASE StopBridge(r)
    BY <2>2 DEF StopBridge
  <2>3. CASE StopTunnel(r)
    BY <2>3 DEF StopTunnel, Terminate, Freed
  <2>4. CASE StopRelay(r)
    BY <2>4 DEF StopRelay, Terminate, Freed
  <2> QED
    BY <1>5, <2>1, <2>2, <2>3, <2>4 DEF Ending
<1>6. CASE RelayBinds(r)
  BY <1>6 DEF RelayBinds
<1>7. CASE Interrupt(r)
  BY <1>7 DEF Interrupt, AfterInterrupt
<1>8. CASE Killed(r)
  BY <1>8 DEF Killed
<1>9. ASSUME NEW k \in Kids, ChildEnds(r, k)
      PROVE  FileInv'
  BY <1>9 DEF ChildEnds, Freed
<1> QED
  BY <1>1, <1>2, <1>3, <1>4, <1>5, <1>6, <1>7, <1>8, <1>9 DEF Step

-----------------------------------------------------------------------------
LEMMA HostInvariant == Spec => []HostInv
<1>1. Init => HostInv
  BY SelfHostedAssumption
  DEF Init, HostInv, TypeOK, ChildInv, ChildrenKnown, Early, FileInv, FileInvOf, Excused, At,
      Kids, Alive, Living, Ended, LastWords, Places, Statuses, Nothing, Blank
<1>2. HostInv /\ [Next]_vars => HostInv'
  <2>1. ASSUME HostInv, NEW r \in Runs, Step(r)
        PROVE  HostInv'
    BY <2>1, TypesStep, ChildStep, FileStep DEF HostInv
  <2>2. ASSUME HostInv, UNCHANGED vars
        PROVE  HostInv'
    BY <2>2 DEF HostInv, TypeOK, ChildInv, ChildrenKnown, Early, FileInv, FileInvOf, Excused,
           At, vars, fileVars
  <2>3. Next => (\E r \in Runs : Step(r)) \/ UNCHANGED vars
    BY DEF Next, Step, Finished
  <2> QED
    BY <2>1, <2>2, <2>3
<1> QED
  BY <1>1, <1>2, PTL DEF Spec

(* Every variable of the wrapper, its children and its state file keeps    *)
(* its type (run_selfhosted_remodex).                                      *)
THEOREM SelfHostedTypes == Spec => []TypeOK
<1>1. HostInv => TypeOK
  BY DEF HostInv
<1> QED
  BY <1>1, HostInvariant, PTL

(* A wrapper that is over leaves no child, whatever step it was at, but a  *)
(* tunnel that never named its URL and was told to end, and what a step    *)
(* that was itself cut off alone looked after (the finally clause,         *)
(* _spawn_quick_tunnel, _run_foreground_process).                          *)
THEOREM NothingLeft == Spec => []NoChildLeft
<1>1. HostInv => NoChildLeft
  BY DEF HostInv, ChildInv, ChildrenKnown, NoChildLeft, At, Kids
<1> QED
  BY <1>1, HostInvariant, PTL

(* The end of a wrapper that nobody signalled, and whose error the disk    *)
(* took, is in the state file unless another run has written it since,     *)
(* though both write and rename one temporary file, in two steps each      *)
(* (run_selfhosted_remodex, write_json_atomic).                            *)
THEOREM EndOnFile == Spec => []EndIsRecorded
<1>1. HostInv => EndIsRecorded
  BY DEF HostInv, FileInv, FileInvOf, Excused, EndIsRecorded, At
<1> QED
  BY <1>1, HostInvariant, PTL

=============================================================================
